---- MODULE Spec2Model ----
(***************************************************************************)
(* QuickLabel: the Scanner print queue (Scanner.tsx), the LAN sync service *)
(* of the Electron main process (lanSync.js) and the replication of scans  *)
(* between a Host and its Clients (App.tsx).                               *)
(***************************************************************************)
EXTENDS Integers, Sequences, FiniteSets, TLC

\* ------------------------------------------------------------------ bounds
MaxTasks == 3          \* print tasks ever enqueued in one run
MaxTime == 2           \* scans that stamp a time in one run
MaxSockets == 2        \* client sockets one device creates in one run
MaxUpdates == 2        \* handler calls whose state updates wait for one render
MaxServers == 1        \* servers one device creates in one run
MaxDrops == 1          \* times the connection of one device is lost in one run
MaxPrints == 2         \* addToPrintQueue calls of one device in one run
MaxMounts == 2         \* times the SyncPanel of one device is mounted in one run
RecordIds == {"r1", "r2"}
Host == "h"
Clients == {"c1", "c2"}
Devices == {Host} \cup Clients
Codes == {"r1", "r2", "r3"}    \* scanned codes: r1, r2 of the Host's batch, r3 of the Client's own

\* ------------------------------------------------------------------ state
VARIABLES
    printQueue,        \* Scanner: committed printQueue state (PrintTask[])
    pqUpdates,         \* Scanner: setPrintQueue updaters queued, not yet rendered
    invocations,       \* processQueue invocations suspended in the 800 ms delay
    nextTaskId,        \* the next crypto.randomUUID() of addToPrintQueue
    printsInFlight,    \* main process: 'print-html' handlers still running
    printLog,          \* task ids executePrint was called for, in order
    printCalls,        \* task ids whose label was handed to printHTML, in order
    failedPrints       \* task ids whose print failed, in executePrint or in the main process

queueVars == <<printQueue, pqUpdates, invocations, nextTaskId, printsInFlight, printLog,
              printCalls, failedPrints>>

VARIABLES
    batches,           \* App: committed batches state, per device
    updates,           \* App: state updates queued and not yet rendered, per device
    activeBatchId,     \* App: committed activeBatchId, per device
    syncMode,          \* App: committed syncMode, per device
    now,               \* the clock read by new Date()
    lastScan,          \* what the last App.handleScan did and returned
    bcastCount,        \* scan-update emissions of the Host, per (batchId, trackingNumber)
    snapApplied,       \* the Client rendered a snapshot over its current connection
    reapplied,         \* per device: records that were scanned already when a scan-update was applied to them
    scanner,           \* per device: App's autoPrint, Scanner's lastRecord, the addToPrintQueue calls made
    panel              \* per device: SyncPanel is mounted, handlers registered with ipcRenderer.on per event

appVars == <<batches, updates, activeBatchId, syncMode, now, lastScan, bcastCount, snapApplied,
            reapplied, scanner, panel>>

VARIABLES
    svc,               \* LanSyncService fields {server, io, listening, clientSocket, mode}
    openSockets,       \* client sockets created by connectToHost and not disconnected
    connected,         \* client sockets with an established connection
    nextSocket,        \* the id of the next socket Client(url) creates
    nextServer,        \* the id of the next server http.createServer creates
    link,              \* per device: connections lost so far, 'connect_error' seen by the socket
    sendBuffer,        \* socket.io: events emitted on the client socket while disconnected
    c2h,               \* messages in flight, Client to Host
    h2c                \* messages in flight, Host to Client

lanVars == <<svc, openSockets, connected, nextSocket, nextServer, link, sendBuffer, c2h, h2c>>

vars == <<queueVars, appVars, lanVars>>

\* ------------------------------------------------------------------ helpers
Range(s) == {s[i] : i \in DOMAIN s}

RemoveAt(s, k) == [i \in 1..(Len(s) - 1) |-> IF i < k THEN s[i] ELSE s[i + 1]]

\* ------------------------------------------------------------------ Scanner.tsx: print queue

\* prev => [...prev, newTask]
\* (PrependTask: the variant that puts the new task first)
PrependTask(prev, task) == <<task>> \o prev
AppendTask(prev, task) == Append(prev, task)

\* prev => prev.map(t => t.internalId === id ? {...t, status: 'processing'} : t)
\* (MarkProcessingNone: the variant whose map changes no task)
MarkProcessingNone(prev, id) == prev

MarkProcessing(prev, id) ==
    [i \in DOMAIN prev |->
        IF prev[i].internalId = id THEN [prev[i] EXCEPT !.status = "processing"]
        ELSE prev[i]]

\* prev => prev.filter(t => t.internalId !== id)
\* (RemoveTaskKeepAll: the variant whose filter keeps every task)
\* (RemoveTaskClearAll: the variant that empties the queue)
RemoveTaskKeepAll(prev, id) == prev
RemoveTaskClearAll(prev, id) == <<>>
\* (RemoveTaskLast: the variant that drops the newest task, whatever its id)
RemoveTaskLast(prev, id) == IF prev = <<>> THEN prev ELSE SubSeq(prev, 1, Len(prev) - 1)

RemoveTask(prev, id) ==
    LET Keep(t) == t.internalId # id IN SelectSeq(prev, Keep)

ApplyQueueUpdate(prev, u) ==
    CASE u.op = "add" -> AppendTask(prev, u.task)
      [] u.op = "mark" -> MarkProcessing(prev, u.id)
      [] u.op = "remove" -> RemoveTask(prev, u.id)

\* React applies the queued updaters in order when it renders.
RECURSIVE ApplyQueueUpdates(_, _)
ApplyQueueUpdates(prev, us) ==
    IF us = <<>> THEN prev
    ELSE ApplyQueueUpdates(ApplyQueueUpdate(prev, Head(us)), Tail(us))

PendingIdx(q) == {i \in DOMAIN q : q[i].status = "pending"}
ProcessingIdx(q) == {i \in DOMAIN q : q[i].status = "processing"}

\* printQueue.find(t => t.status === 'pending'): the first pending task
\* (NextTaskIdxLast: the variant that takes the newest pending task)
NextTaskIdxFirst(q) == CHOOSE i \in PendingIdx(q) : \A j \in PendingIdx(q) : i <= j
NextTaskIdxLast(q) == CHOOSE i \in PendingIdx(q) : \A j \in PendingIdx(q) : i >= j
NextTaskIdx(q) == NextTaskIdxFirst(q)

\* !(!nextTask || printQueue.some(t => t.status === 'processing'))
\* (ShouldPromoteNoGuard: the variant without the 'processing' test)
ShouldPromoteNoGuard(q) == PendingIdx(q) # {}
ShouldPromote(q) == PendingIdx(q) # {} /\ ProcessingIdx(q) = {}

\* addToPrintQueue(record)
AddToPrintQueue(r) ==
    /\ nextTaskId <= MaxTasks
    /\ pqUpdates' = Append(pqUpdates,
            [op |-> "add", id |-> nextTaskId,
             task |-> [internalId |-> nextTaskId, record |-> r, status |-> "pending"]])
    /\ nextTaskId' = nextTaskId + 1
    /\ UNCHANGED <<printQueue, invocations, printsInFlight, printLog, printCalls, failedPrints,
                   appVars, lanVars>>

\* React renders the queued updates and commits; the [printQueue] effect then
\* runs processQueue up to its first await.
RenderScanner ==
    /\ pqUpdates # <<>>
    /\ LET q == ApplyQueueUpdates(printQueue, pqUpdates) IN
        /\ printQueue' = q
        /\ IF ShouldPromote(q)
           THEN LET id == q[NextTaskIdx(q)].internalId IN
                /\ pqUpdates' = <<[op |-> "mark", id |-> id, task |-> q[NextTaskIdx(q)]]>>
                /\ invocations' = Append(invocations, q[NextTaskIdx(q)])
           ELSE /\ pqUpdates' = <<>>
                /\ UNCHANGED invocations
    /\ UNCHANGED <<nextTaskId, printsInFlight, printLog, printCalls, failedPrints,
                   appVars, lanVars>>

\* executePrint: the label element of the task must be in the rendered DOM;
\* printHTML is ipcRenderer.send, it returns without waiting for the print.
ElementRendered(id) == \E i \in DOMAIN printQueue : printQueue[i].internalId = id

\* processQueue after the delay: await executePrint(...), finally remove the task.
\* ok = FALSE: executePrint throws before it reaches printHTML (a step of the
\* DOM work fails) and catches the error itself.
ResumeProcessQueue(k) ==
    /\ k \in DOMAIN invocations
    \* the 800 ms delay outlasts the render React scheduled for 'processing'
    /\ \A i \in DOMAIN pqUpdates :
          ~(pqUpdates[i].op = "mark" /\ pqUpdates[i].id = invocations[k].internalId)
    /\ \E ok \in BOOLEAN :
        LET t == invocations[k]
            sent == ok /\ ElementRendered(t.internalId)
        IN
        /\ printLog' = Append(printLog, t.internalId)
        /\ printsInFlight' = IF sent THEN printsInFlight \cup {t.internalId}
                             ELSE printsInFlight
        /\ printCalls' = IF sent THEN Append(printCalls, t.internalId) ELSE printCalls
        /\ failedPrints' = IF sent THEN failedPrints ELSE failedPrints \cup {t.internalId}
        /\ pqUpdates' = Append(pqUpdates, [op |-> "remove", id |-> t.internalId, task |-> t])
        /\ invocations' = RemoveAt(invocations, k)
    /\ UNCHANGED <<printQueue, nextTaskId, appVars, lanVars>>

\* main.js ipcMain.on('print-html'): the handler ends, printed or failed.
PrintHtmlDone(id) ==
    /\ id \in printsInFlight
    /\ printsInFlight' = printsInFlight \ {id}
    /\ \E ok \in BOOLEAN :
          failedPrints' = IF ok THEN failedPrints ELSE failedPrints \cup {id}
    /\ UNCHANGED <<printQueue, pqUpdates, invocations, nextTaskId, printLog, printCalls,
                   appVars, lanVars>>

QueueInit ==
    /\ printQueue = <<>>
    /\ pqUpdates = <<>>
    /\ invocations = <<>>
    /\ nextTaskId = 1
    /\ printsInFlight = {}
    /\ printLog = <<>>
    /\ printCalls = <<>>
    /\ failedPrints = {}

QueueNext ==
    \/ \E r \in RecordIds : AddToPrintQueue(r)
    \/ RenderScanner
    \/ \E k \in 1..MaxTasks : ResumeProcessQueue(k)
    \/ \E id \in 1..MaxTasks : PrintHtmlDone(id)

\* ------------------------------------------------------------------ App.tsx: batches

\* BatchRecord {id, scanned, scannedAt}; scannedAt = NoTime is "undefined"
NoTime == 0
Rec(id) == [id |-> id, scanned |-> FALSE, scannedAt |-> NoTime]
NoBatch == "null"

\* the value undefined where a batch list is expected, written as a list that
\* no handler builds so that it can be compared with batch lists
Undefined == <<[id |-> "undefined", records |-> <<>>]>>

\* records.findIndex(r => r.id === trackingNumber): 0 stands for -1
\* (FindIndexOrFirst: the variant that falls back to the first record)
FindIndexOrFirst(records, trackingNumber) ==
    LET hits == {i \in DOMAIN records : records[i].id = trackingNumber} IN
    IF hits = {} THEN (IF records = <<>> THEN 0 ELSE 1)
    ELSE CHOOSE i \in hits : \A j \in hits : i <= j

FindIndex(records, trackingNumber) ==
    LET hits == {i \in DOMAIN records : records[i].id = trackingNumber} IN
    IF hits = {} THEN 0 ELSE CHOOSE i \in hits : \A j \in hits : i <= j

\* batches.find(b => b.id === id): 0 stands for undefined
FindBatch(bs, id) ==
    LET hits == {i \in DOMAIN bs : bs[i].id = id} IN
    IF hits = {} THEN 0 ELSE CHOOSE i \in hits : \A j \in hits : i <= j

\* the record of key = (batchId, trackingNumber) in the batch list bs
HasRecord(bs, key) ==
    /\ FindBatch(bs, key[1]) > 0
    /\ FindIndex(bs[FindBatch(bs, key[1])].records, key[2]) > 0
RecordOf(bs, key) ==
    bs[FindBatch(bs, key[1])].records[FindIndex(bs[FindBatch(bs, key[1])].records, key[2])]
IsScanned(bs, key) == HasRecord(bs, key) /\ RecordOf(bs, key).scanned
StampOf(bs, key) == IF HasRecord(bs, key) THEN RecordOf(bs, key).scannedAt ELSE NoTime

\* newRecords[recordIndex] = {...newRecords[recordIndex], scanned: true, scannedAt}
MarkScanned(records, idx, at) ==
    [records EXCEPT ![idx] = [@ EXCEPT !.scanned = TRUE, !.scannedAt = at]]

\* onRemoteScan's updater: the record of (batchId, trackingNumber) is marked
\* only when it is found and not yet scanned.
\* (RemoteScanHitsAny: the variant without the !scanned test)
RemoteScanHitsAny(b, u) ==
    /\ b.id = u.batchId
    /\ FindIndex(b.records, u.trackingNumber) > 0

RemoteScanHits(b, u) ==
    /\ b.id = u.batchId
    /\ FindIndex(b.records, u.trackingNumber) > 0
    /\ ~b.records[FindIndex(b.records, u.trackingNumber)].scanned

\* data.scannedAt || new Date().toISOString()
\* (RemoteScannedAtClock: the variant that stamps the Host's own clock)
RemoteScannedAtClock(u, clock) == clock
RemoteScannedAt(u, clock) == IF u.scannedAt # NoTime THEN u.scannedAt ELSE clock

ApplyRemoteScan(bs, u, clock) ==
    [i \in DOMAIN bs |->
        IF RemoteScanHits(bs[i], u)
        THEN [bs[i] EXCEPT !.records =
                 MarkScanned(@, FindIndex(@, u.trackingNumber), RemoteScannedAt(u, clock))]
        ELSE bs[i]]

\* the broadcastScan calls the updater makes, one per batch it marks
RemoteScanBroadcasts(bs, u, clock) ==
    LET hit == {i \in DOMAIN bs : RemoteScanHits(bs[i], u)} IN
    IF hit = {} THEN <<>>
    ELSE <<[type |-> "scan-update", batchId |-> u.batchId,
            trackingNumber |-> u.trackingNumber,
            scannedAt |-> RemoteScannedAt(u, clock)]>>

\* onRemoteScanUpdate's updater: applied by id, whatever the scanned flag is
\* (ApplyScanUpdateOnce: the variant that leaves a scanned record alone)
ApplyScanUpdateOnce(bs, u) ==
    [i \in DOMAIN bs |->
        IF /\ bs[i].id = u.batchId
           /\ FindIndex(bs[i].records, u.trackingNumber) > 0
           /\ ~bs[i].records[FindIndex(bs[i].records, u.trackingNumber)].scanned
        THEN [bs[i] EXCEPT !.records =
                 MarkScanned(@, FindIndex(@, u.trackingNumber), u.scannedAt)]
        ELSE bs[i]]

ApplyScanUpdate(bs, u) ==
    [i \in DOMAIN bs |->
        IF bs[i].id = u.batchId /\ FindIndex(bs[i].records, u.trackingNumber) > 0
        THEN [bs[i] EXCEPT !.records =
                 MarkScanned(@, FindIndex(@, u.trackingNumber), u.scannedAt)]
        ELSE bs[i]]

\* handleDeleteBatch's updater: prev.filter(b => b.id !== id)
ApplyDeleteBatch(bs, id) ==
    LET Keep(b) == b.id # id IN SelectSeq(bs, Keep)

\* a batch list that keeps what prev holds and value lacks
MergeBatches(prev, value) ==
    LET Missing(b) == FindBatch(value, b.id) = 0 IN value \o SelectSeq(prev, Missing)

\* setBatches(newBatches), a value and not an updater: the previous list is
\* replaced as a whole
ReplaceBatches(prev, value) == value

\* One queued state update of App applied to (batches, activeBatchId, syncMode);
\* out collects the broadcastScan calls made while updaters run.
ApplyAppUpdate(st, u, clock) ==
    CASE u.op = "setBatches" -> [st EXCEPT !.batches = ReplaceBatches(st.batches, u.value)]
      [] u.op = "remoteScan" ->
            [st EXCEPT !.batches = ApplyRemoteScan(st.batches, u, clock),
                       !.out = st.out \o RemoteScanBroadcasts(st.batches, u, clock)]
      [] u.op = "scanUpdate" ->
            [st EXCEPT !.batches = ApplyScanUpdate(st.batches, u),
                       !.re = IF IsScanned(st.batches, <<u.batchId, u.trackingNumber>>)
                              THEN st.re \cup {<<u.batchId, u.trackingNumber>>}
                              ELSE st.re]
      [] u.op = "deleteBatch" -> [st EXCEPT !.batches = ApplyDeleteBatch(st.batches, u.id)]
      [] u.op = "setActiveBatchId" -> [st EXCEPT !.active = u.id]
      [] u.op = "setSyncMode" -> [st EXCEPT !.mode = u.mode]

RECURSIVE ApplyAppUpdates(_, _, _)
ApplyAppUpdates(st, us, clock) ==
    IF us = <<>> THEN st
    ELSE ApplyAppUpdates(ApplyAppUpdate(st, Head(us), clock), Tail(us), clock)

\* ------------------------------------------------------------------ lanSync.js

NoSocket == 0

\* constructor
SvcInit == [server |-> FALSE, io |-> FALSE, listening |-> FALSE,
            clientSocket |-> NoSocket, mode |-> "standalone"]

\* startHost; ok = FALSE: the port is taken, server.listen emits 'error' later
\* and nothing of the call sees it.
\* (SvcStartHostAgain: the variant without the 'Server already running' test)
SvcStartHostAgain(s, ok) ==
    [s EXCEPT !.server = TRUE, !.io = TRUE, !.listening = ok, !.mode = "host"]

SvcStartHost(s, ok) ==
    IF s.server THEN s
    ELSE [s EXCEPT !.server = TRUE, !.io = TRUE, !.listening = ok, !.mode = "host"]

\* the statements of startHost's try block that may throw, by what has been
\* assigned when they do: express() and http.createServer(app) before
\* this.server is assigned, new Server(...) before this.io is, ip.address()
\* in the return expression after this.mode is
ThrowPoints == {"createServer", "newServer", "address"}

\* startHost when the statement at throws: catch (err) returns the failure
\* and assigns nothing
SvcStartHostThrows(s, at, ok) ==
    IF s.server THEN s
    ELSE CASE at = "createServer" -> s
           [] at = "newServer" -> [s EXCEPT !.server = TRUE]
           [] OTHER -> [s EXCEPT !.server = TRUE, !.io = TRUE, !.listening = ok,
                                 !.mode = "host"]

\* what startHost returns; at = "none": nothing throws
StartHostResult(s, at) ==
    IF s.server THEN [success |-> FALSE, message |-> "Server already running"]
    ELSE IF at = "none" THEN [success |-> TRUE, message |-> ""]
    ELSE [success |-> FALSE, message |-> at]

\* stopHost; this.io.close() throws when there is a server and no io
\* (SvcStopHostKeepMode: the variant that leaves this.mode as it is)
SvcStopHostKeepMode(s) ==
    IF s.server /\ s.io
    THEN [s EXCEPT !.server = FALSE, !.io = FALSE, !.listening = FALSE]
    ELSE s

SvcStopHost(s) ==
    IF s.server /\ s.io
    THEN [s EXCEPT !.server = FALSE, !.io = FALSE, !.listening = FALSE, !.mode = "standalone"]
    ELSE s

\* connectToHost: this.clientSocket = Client(url); this.mode = 'client'
SvcConnectToHost(s, sock) == [s EXCEPT !.clientSocket = sock, !.mode = "client"]

\* disconnectFromHost
\* (SvcDisconnectFromHostKeepMode: the variant that leaves this.mode as it is)
SvcDisconnectFromHostKeepMode(s) ==
    IF s.clientSocket # NoSocket
    THEN [s EXCEPT !.clientSocket = NoSocket]
    ELSE s

SvcDisconnectFromHost(s) ==
    IF s.clientSocket # NoSocket
    THEN [s EXCEPT !.clientSocket = NoSocket, !.mode = "standalone"]
    ELSE s

\* getStatus().isConnected
\* (IsConnectedHasSocket: the variant without the clientSocket.connected test)
IsConnectedHasSocket(d) ==
    \/ svc[d].mode = "host" /\ svc[d].server
    \/ svc[d].mode = "client" /\ svc[d].clientSocket # NoSocket

IsConnected(d) ==
    \/ svc[d].mode = "host" /\ svc[d].server
    \/ svc[d].mode = "client" /\ svc[d].clientSocket # NoSocket
                              /\ svc[d].clientSocket \in connected[d]

\* The Clients dial the Host; the peer the Host device itself would dial is
\* outside the model, and what is emitted to it is not tracked.
Emit(d, chan, msgs) == IF d \in Clients THEN [chan EXCEPT ![d] = @ \o msgs] ELSE chan

\* io.emit / io.to(socketId).emit reach the sockets connected to this server
\* (DeliverAll: the variant that emits to every socket, io.emit, whatever the target)
DeliverAll(chan, targets, msgs) == [c \in DOMAIN chan |-> chan[c] \o msgs]

Deliver(chan, targets, msgs) ==
    [c \in DOMAIN chan |-> IF c \in targets THEN chan[c] \o msgs ELSE chan[c]]

LinkedClients == {c \in Clients : svc[c].clientSocket # NoSocket
                                   /\ svc[c].clientSocket \in connected[c]}

\* sendSyncDataToClient / broadcastScan: if (this.mode === 'host' && this.io)
\* (HostMayEmitAnyMode: the variant without the test of this.mode)
HostMayEmitAnyMode(d) == svc[d].io

HostMayEmit(d) == svc[d].mode = "host" /\ svc[d].io

\* sendScanToHost: if (this.mode === 'client' && this.clientSocket)
ClientMayEmit(d) == svc[d].mode = "client" /\ svc[d].clientSocket # NoSocket

\* ---- the service's operations, as state changes of lanVars

LanStartHost(d, ok) ==
    /\ svc[d].server \/ nextServer[d] <= MaxServers
    /\ svc' = [svc EXCEPT ![d] = SvcStartHost(@, ok)]
    /\ nextServer' = IF svc[d].server THEN nextServer ELSE [nextServer EXCEPT ![d] = @ + 1]
    /\ UNCHANGED <<openSockets, connected, nextSocket, link, sendBuffer, c2h, h2c>>

\* startHost, one of its statements throwing
LanStartHostThrows(d, at, ok) ==
    /\ svc[d].server \/ nextServer[d] <= MaxServers
    /\ svc' = [svc EXCEPT ![d] = SvcStartHostThrows(@, at, ok)]
    /\ nextServer' = IF svc'[d].server /\ ~svc[d].server
                     THEN [nextServer EXCEPT ![d] = @ + 1] ELSE nextServer
    /\ UNCHANGED <<openSockets, connected, nextSocket, link, sendBuffer, c2h, h2c>>

\* io.close() disconnects every client of this server; what was in flight is lost
LanStopHost(d) ==
    /\ svc' = [svc EXCEPT ![d] = SvcStopHost(@)]
    /\ IF d = Host /\ svc[d].server /\ svc[d].io
       THEN /\ connected' = [x \in Devices |-> IF x \in Clients THEN {} ELSE connected[x]]
            /\ c2h' = [x \in Devices |-> <<>>]
            /\ h2c' = [x \in Devices |-> <<>>]
       ELSE UNCHANGED <<connected, c2h, h2c>>
    /\ UNCHANGED <<openSockets, nextSocket, nextServer, link, sendBuffer>>

\* connectToHost: the previous socket is disconnected, a new one is created
\* (LanConnectToHostKeepOld: the variant that leaves the previous socket open)
LanConnectToHostKeepOld(d) ==
    /\ nextSocket[d] <= MaxSockets
    /\ svc' = [svc EXCEPT ![d] = SvcConnectToHost(@, nextSocket[d])]
    /\ openSockets' = [openSockets EXCEPT ![d] = @ \cup {nextSocket[d]}]
    /\ nextSocket' = [nextSocket EXCEPT ![d] = @ + 1]
    /\ link' = [link EXCEPT ![d].error = FALSE]
    /\ UNCHANGED <<connected, h2c, sendBuffer, nextServer, c2h>>

LanConnectToHost(d) ==
    /\ nextSocket[d] <= MaxSockets
    /\ LET old == svc[d].clientSocket IN
        /\ svc' = [svc EXCEPT ![d] = SvcConnectToHost(@, nextSocket[d])]
        /\ openSockets' = [openSockets EXCEPT ![d] = (@ \ {old}) \cup {nextSocket[d]}]
        /\ connected' = [connected EXCEPT ![d] = @ \ {old}]
        /\ h2c' = [h2c EXCEPT ![d] = <<>>]
    /\ nextSocket' = [nextSocket EXCEPT ![d] = @ + 1]
    /\ sendBuffer' = [sendBuffer EXCEPT ![d] = <<>>]
    /\ link' = [link EXCEPT ![d].error = FALSE]
    /\ UNCHANGED <<nextServer, c2h>>

LanDisconnectFromHost(d) ==
    /\ LET old == svc[d].clientSocket IN
        /\ svc' = [svc EXCEPT ![d] = SvcDisconnectFromHost(@)]
        /\ openSockets' = [openSockets EXCEPT ![d] = @ \ {old}]
        /\ connected' = [connected EXCEPT ![d] = @ \ {old}]
        /\ h2c' = IF old # NoSocket THEN [h2c EXCEPT ![d] = <<>>] ELSE h2c
        /\ sendBuffer' = IF old # NoSocket THEN [sendBuffer EXCEPT ![d] = <<>>] ELSE sendBuffer
        /\ link' = IF old # NoSocket THEN [link EXCEPT ![d].error = FALSE] ELSE link
    /\ UNCHANGED <<nextSocket, nextServer, c2h>>

\* the Host a socket dials accepts connections
Reachable(d) == IF d \in Clients THEN svc[Host].listening ELSE TRUE

RequestSync(sock) == [type |-> "request-sync", sock |-> sock]

\* what the 'connect' handler emits: this.clientSocket.emit('request-sync')
\* (OnFirstConnect: the variant that asks only when the socket first connects)
OnFirstConnect(d, sock) == IF link[d].drops = 0 THEN <<RequestSync(sock)>> ELSE <<>>
OnConnect(d, sock) == <<RequestSync(sock)>>

\* clientSocket.on('connect'), the first connection of a socket and each
\* reconnection: socket.io flushes what was buffered, the handler then emits
\* request-sync on this.clientSocket
SocketConnect(d, sock) ==
    /\ sock \in openSockets[d] \ connected[d]
    /\ sock = svc[d].clientSocket
    /\ Reachable(d)
    /\ connected' = [connected EXCEPT ![d] = @ \cup {sock}]
    /\ c2h' = Emit(d, c2h, sendBuffer[d] \o OnConnect(d, sock))
    /\ sendBuffer' = [sendBuffer EXCEPT ![d] = <<>>]
    /\ link' = [link EXCEPT ![d].error = FALSE]
    /\ UNCHANGED <<svc, openSockets, nextSocket, nextServer, h2c>>

\* clientSocket.on('connect_error'): the Host is not there; 'host-connection-error'
\* goes to the window, the service keeps its socket and its mode, socket.io
\* keeps trying
SocketConnectError(d, sock) ==
    /\ sock \in openSockets[d] \ connected[d]
    /\ sock = svc[d].clientSocket
    /\ ~Reachable(d)
    /\ ~link[d].error
    /\ link' = [link EXCEPT ![d].error = TRUE]
    /\ UNCHANGED <<svc, openSockets, connected, nextSocket, nextServer, sendBuffer, c2h, h2c>>

\* the transport of a connected socket closes (network loss): the socket stays
\* open and socket.io reconnects it; what was in flight on it is lost
SocketDrop(d, sock) ==
    /\ sock \in connected[d]
    /\ sock = svc[d].clientSocket
    /\ link[d].drops < MaxDrops
    /\ connected' = [connected EXCEPT ![d] = @ \ {sock}]
    /\ link' = [link EXCEPT ![d].drops = @ + 1]
    /\ c2h' = [c2h EXCEPT ![d] = <<>>]
    /\ h2c' = [h2c EXCEPT ![d] = <<>>]
    /\ UNCHANGED <<svc, openSockets, nextSocket, nextServer, sendBuffer>>

\* ------------------------------------------------------------------ App.tsx: handlers

BatchIds == {"b0", "b1"}
AllRecordIds == RecordIds \cup {"r3", "r4", "r5"}
Keys == BatchIds \X AllRecordIds

\* the batches.map of handleScan: the record at recordIndex of the active batch
UpdatedBatches(bs, active, recordIndex, at) ==
    [i \in DOMAIN bs |->
        IF bs[i].id = active
        THEN [bs[i] EXCEPT !.records = MarkScanned(@, recordIndex, at)]
        ELSE bs[i]]

\* if (syncMode === 'client') ... else ...
\* (SendsToHostNever: the variant that always takes the else branch)
SendsToHostNever(mode) == FALSE
SendsToHost(mode) == mode = "client"

RECURSIVE CountEmitted(_, _)
CountEmitted(cnt, msgs) ==
    IF msgs = <<>> THEN cnt
    ELSE CountEmitted(
            [cnt EXCEPT ![<<Head(msgs).batchId, Head(msgs).trackingNumber>>] = @ + 1],
            Tail(msgs))

ScanUpdate(batchId, trackingNumber, at) ==
    [type |-> "scan-update", batchId |-> batchId,
     trackingNumber |-> trackingNumber, scannedAt |-> at]

\* window.electronAPI.broadcastScan -> LanSyncService.broadcastScan
BroadcastScan(d, msgs) ==
    IF HostMayEmit(d) /\ msgs # <<>>
    THEN /\ bcastCount' = CountEmitted(bcastCount, msgs)
         /\ h2c' = IF d = Host THEN Deliver(h2c, LinkedClients, msgs) ELSE h2c
    ELSE UNCHANGED <<bcastCount, h2c>>

\* the events the renderer subscribes to with ipcRenderer.on (preload.js)
AppEvents == {"sync-data-request", "remote-scan", "sync-data-received", "remote-scan-update"}
PanelEvents == {"host-connected", "host-connection-error"}
SyncEvents == AppEvents \cup PanelEvents

\* App is mounted and its LAN effect has subscribed once; the SyncPanel, part
\* of the Batches view, is not mounted
PanelInit == [mounted |-> FALSE,
              handlers |-> [e \in SyncEvents |-> IF e \in AppEvents THEN 1 ELSE 0]]

\* the SyncPanel's connection-event effect: onHostConnected(...) and
\* onHostConnectionError(...), each an ipcRenderer.on
Subscribe(pn) ==
    [pn EXCEPT !.mounted = TRUE,
               !.handlers = [e \in SyncEvents |-> IF e \in PanelEvents THEN @[e] + 1 ELSE @[e]]]

\* the SyncPanel unmounts: its effects return no cleanup, ipcRenderer keeps
\* the listeners
Unsubscribe(pn) == [pn EXCEPT !.mounted = FALSE]

\* Scanner: lastRecord is null, App: autoPrint is off, nothing was enqueued
NoRecord == "null"
ScannerInit == [autoPrint |-> FALSE, lastRecord |-> NoRecord, enqueued |-> <<>>]

\* a call of addToPrintQueue(record), with the place in the code that made it
Enqueue(sc, record, by) == [sc EXCEPT !.enqueued = Append(@, [record |-> record, by |-> by])]

\* the auto-print effect, run after a render in which lastRecord or autoPrint
\* changed: if (autoPrint && lastRecord) addToPrintQueue(lastRecord)
AutoPrintEffect(sc, by) ==
    IF sc.autoPrint /\ sc.lastRecord # NoRecord THEN Enqueue(sc, sc.lastRecord, by) ELSE sc

\* Scanner.handleScan after onScan returned: setLastRecord(result), then the
\* auto-print effect
SetLastRecord(sc, record) == AutoPrintEffect([sc EXCEPT !.lastRecord = record], "scan")

\* App is rendered; with batches undefined its render throws at
\* batches.find(...) and React takes the tree down.
Mounted(d) == batches[d] # Undefined

\* a state update made inside a React event handler (the form's submit, a
\* click): React renders it when the handler returns, before the next event
\* of the window is handled
FromEventHandler(u) ==
    \/ u.op = "setBatches" /\ u.src \in {"handleScan", "onClearHistory"}
    \/ u.op = "deleteBatch"

NoneFromEventHandler(us) == \A i \in DOMAIN us : ~FromEventHandler(us[i])

\* Scanner.handleScan -> App.handleScan(trackingNum)
HandleScan(d, code) ==
    /\ Mounted(d)
    /\ UNCHANGED panel
    /\ scanner[d].autoPrint => Len(scanner[d].enqueued) < MaxPrints
    /\ now <= MaxTime
    /\ Len(updates[d]) < MaxUpdates
    /\ NoneFromEventHandler(updates[d])
    /\ FindBatch(batches[d], activeBatchId[d]) > 0
    /\ LET batch == batches[d][FindBatch(batches[d], activeBatchId[d])]
           recordIndex == FindIndex(batch.records, code)
           live == svc[d].clientSocket # NoSocket /\ svc[d].clientSocket \in connected[d]
           scan == [type |-> "client-scan", batchId |-> batch.id, trackingNumber |-> code,
                    scannedAt |-> now, sock |-> svc[d].clientSocket]
       IN
       IF recordIndex = 0
       THEN /\ lastScan' = [dev |-> d, mode |-> syncMode[d], connected |-> IsConnected(d),
                            key |-> <<batch.id, code>>,
                            result |-> "miss", scanned |-> FALSE, before |-> FALSE,
                            delivery |-> "none"]
            /\ scanner' = [scanner EXCEPT ![d] = SetLastRecord(@, NoRecord)]
            /\ UNCHANGED <<batches, updates, activeBatchId, syncMode, now, bcastCount,
                           snapApplied, reapplied, lanVars>>
       ELSE /\ now' = now + 1
            /\ scanner' = [scanner EXCEPT ![d] = SetLastRecord(@, code)]
            /\ lastScan' = [dev |-> d, mode |-> syncMode[d], connected |-> IsConnected(d),
                            key |-> <<batch.id, code>>,
                            result |-> "hit", scanned |-> TRUE,
                            before |-> batch.records[recordIndex].scanned,
                            delivery |-> IF ~SendsToHost(syncMode[d]) THEN "none"
                                         ELSE IF ~ClientMayEmit(d) THEN "dropped"
                                         ELSE IF live THEN "sent" ELSE "buffered"]
            /\ IF SendsToHost(syncMode[d])
               THEN /\ c2h' = IF ClientMayEmit(d) /\ live THEN Emit(d, c2h, <<scan>>) ELSE c2h
                    /\ sendBuffer' = IF ClientMayEmit(d) /\ ~live
                                     THEN [sendBuffer EXCEPT ![d] = Append(@, scan)]
                                     ELSE sendBuffer
                    /\ UNCHANGED <<updates, bcastCount, h2c>>
               ELSE /\ updates' = [updates EXCEPT ![d] = Append(@,
                            [op |-> "setBatches", src |-> "handleScan",
                             value |-> UpdatedBatches(batches[d], activeBatchId[d],
                                                      recordIndex, now)])]
                    /\ IF syncMode[d] = "host"
                       THEN BroadcastScan(d, <<ScanUpdate(batch.id, code, now)>>)
                       ELSE UNCHANGED <<bcastCount, h2c>>
                    /\ UNCHANGED <<c2h, sendBuffer>>
            /\ UNCHANGED <<batches, activeBatchId, syncMode, snapApplied, reapplied,
                           svc, openSockets, connected, nextSocket, nextServer, link>>
    /\ UNCHANGED queueVars

IsSnapshot(u) == u.op = "setBatches" /\ u.src = "onSyncDataReceived"

\* React renders the queued updates of App and commits; the effects then run
\* (batchesRef.current = batches, and the auto-select helper).
Render(d) ==
    /\ Mounted(d)
    /\ updates[d] # <<>>
    /\ LET st == ApplyAppUpdates([batches |-> batches[d], active |-> activeBatchId[d],
                                  mode |-> syncMode[d], out |-> <<>>, re |-> {}],
                                 updates[d], now)
       IN
        /\ batches' = [batches EXCEPT ![d] = st.batches]
        /\ activeBatchId' = [activeBatchId EXCEPT ![d] = st.active]
        /\ syncMode' = [syncMode EXCEPT ![d] = st.mode]
        /\ BroadcastScan(d, st.out)
        /\ updates' = [updates EXCEPT ![d] =
               IF /\ st.batches # Undefined   \* App's render throws on batches.find, no effect runs
                  /\ st.active = NoBatch /\ Len(st.batches) = 1 /\ st.mode = "standalone"
               THEN <<[op |-> "setActiveBatchId", id |-> st.batches[1].id]>>
               ELSE <<>>]
        /\ reapplied' = [reapplied EXCEPT ![d] = @ \cup st.re]
        /\ UNCHANGED <<scanner, panel>>
        /\ snapApplied' = [snapApplied EXCEPT ![d] =
               @ \/ \E i \in DOMAIN updates[d] : IsSnapshot(updates[d][i])]
    /\ UNCHANGED <<now, lastScan, svc, openSockets, connected, nextSocket, nextServer, link, sendBuffer, c2h,
                   queueVars>>

\* Host: socket.on('request-sync') -> 'sync-data-request' -> onSyncDataRequest ->
\* sendSyncData -> sendSyncDataToClient; socket.on('client-scan') -> 'remote-scan'
\* -> onRemoteScan
HostReceive(c) ==
    /\ c2h[c] # <<>>
    /\ Len(updates[Host]) < MaxUpdates
    /\ c2h' = [c2h EXCEPT ![c] = Tail(@)]
    /\ LET m == Head(c2h[c]) IN
       IF m.type = "request-sync"
       THEN /\ h2c' = IF HostMayEmit(Host) /\ m.sock \in connected[c]
                      THEN Deliver(h2c, {c},
                               <<[type |-> "sync-data-response",
                                  batches |-> batches[Host],
                                  activeBatchId |-> activeBatchId[Host]]>>)
                      ELSE h2c
            /\ UNCHANGED updates
       ELSE /\ updates' = [updates EXCEPT ![Host] = Append(@,
                    [op |-> "remoteScan", batchId |-> m.batchId,
                     trackingNumber |-> m.trackingNumber, scannedAt |-> m.scannedAt])]
            /\ UNCHANGED h2c
    /\ UNCHANGED <<batches, activeBatchId, syncMode, now, lastScan, bcastCount, snapApplied, reapplied, scanner, panel,
                   svc, openSockets, connected, nextSocket, nextServer, link, sendBuffer, queueVars>>

\* A 'sync-data-response' whose payload has no batch list reaches the Client's
\* socket: data.batches is undefined.
MalformedSnapshot(c, active) ==
    /\ svc[c].clientSocket # NoSocket
    /\ svc[c].clientSocket \in connected[c]
    /\ Len(h2c[c]) < MaxUpdates
    /\ h2c' = [h2c EXCEPT ![c] = Append(@,
            [type |-> "sync-data-response", batches |-> Undefined, activeBatchId |-> active])]
    /\ UNCHANGED <<appVars, queueVars, svc, openSockets, connected, nextSocket, nextServer,
                   link, sendBuffer, c2h>>

\* Client: 'sync-data-response' -> 'sync-data-received' -> onSyncDataReceived;
\* 'scan-update' -> 'remote-scan-update' -> onRemoteScanUpdate
ClientReceive(c) ==
    /\ Mounted(c)
    /\ h2c[c] # <<>>
    /\ Len(updates[c]) < MaxUpdates
    /\ h2c' = [h2c EXCEPT ![c] = Tail(@)]
    /\ LET m == Head(h2c[c]) IN
       IF m.type = "sync-data-response"
       THEN updates' = [updates EXCEPT ![c] =
                (@ \o <<[op |-> "setBatches", src |-> "onSyncDataReceived",
                         value |-> m.batches]>>)
                \o (IF m.activeBatchId # NoBatch
                    THEN <<[op |-> "setActiveBatchId", id |-> m.activeBatchId]>>
                    ELSE IF activeBatchId[c] # NoBatch
                            /\ m.batches # Undefined   \* newBatches.find throws on undefined
                            /\ FindBatch(m.batches, activeBatchId[c]) = 0
                         THEN <<[op |-> "setActiveBatchId", id |-> NoBatch]>>
                         ELSE <<>>)]
       ELSE updates' = [updates EXCEPT ![c] = Append(@,
                [op |-> "scanUpdate", batchId |-> m.batchId,
                 trackingNumber |-> m.trackingNumber, scannedAt |-> m.scannedAt])]
    /\ UNCHANGED <<batches, activeBatchId, syncMode, now, lastScan, bcastCount, snapApplied, reapplied, scanner, panel,
                   svc, openSockets, connected, nextSocket, nextServer, link, sendBuffer, c2h, queueVars>>

\* the socket's 'connect' event, as the whole system sees it
SocketConnected(d, sock) ==
    /\ SocketConnect(d, sock)
    /\ UNCHANGED <<appVars, queueVars>>

\* App: the Auto-print switch, setAutoPrint(!autoPrint); the Scanner gets the
\* new prop and its auto-print effect runs
ToggleAutoPrint(d) ==
    /\ Mounted(d)
    /\ ~scanner[d].autoPrint => Len(scanner[d].enqueued) < MaxPrints
    /\ scanner' = [scanner EXCEPT ![d] =
            AutoPrintEffect([@ EXCEPT !.autoPrint = ~@], "autoPrintOn")]
    /\ UNCHANGED <<batches, updates, activeBatchId, syncMode, now, lastScan, bcastCount,
                   snapApplied, reapplied, panel, lanVars, queueVars>>

\* Scanner: the Print Now button, lastRecord && addToPrintQueue(lastRecord)
PrintNow(d) ==
    /\ Mounted(d)
    /\ scanner[d].lastRecord # NoRecord
    /\ Len(scanner[d].enqueued) < MaxPrints
    /\ scanner' = [scanner EXCEPT ![d] = Enqueue(@, @.lastRecord, "printNow")]
    /\ UNCHANGED <<batches, updates, activeBatchId, syncMode, now, lastScan, bcastCount,
                   snapApplied, reapplied, panel, lanVars, queueVars>>

\* ------------------------------------------------------------------ SyncPanel (Scanner.tsx)

SetSyncMode(d, mode) ==
    updates' = [updates EXCEPT ![d] = Append(@, [op |-> "setSyncMode", mode |-> mode])]

\* a Client whose connection ends has to be sent a snapshot again
LinkLost(cs) ==
    /\ snapApplied' = [d \in Devices |-> IF d \in cs THEN FALSE ELSE snapApplied[d]]
    /\ UNCHANGED <<reapplied, scanner, panel>>

ModesOf(d) == IF d = Host THEN {"standalone", "host"} ELSE {"standalone", "client"}

\* handleModeChange(newMode)
\* (PanelAdoptModeOnly: the variant without the cleanup of the current mode)
PanelAdoptModeOnly(d, newMode) ==
    /\ syncMode[d] # newMode
    /\ Len(updates[d]) < MaxUpdates
    /\ SetSyncMode(d, newMode)
    /\ UNCHANGED <<batches, activeBatchId, syncMode, now, lastScan, bcastCount, queueVars,
                   lanVars, snapApplied, reapplied, scanner, panel>>

PanelHandleModeChange(d, newMode) ==
    /\ syncMode[d] # newMode
    /\ Len(updates[d]) < MaxUpdates
    /\ CASE syncMode[d] = "host" -> LanStopHost(d) /\ LinkLost(Clients)
         [] syncMode[d] = "client" -> LanDisconnectFromHost(d) /\ LinkLost({d})
         [] OTHER -> UNCHANGED <<lanVars, snapApplied, reapplied, scanner, panel>>
    /\ SetSyncMode(d, newMode)
    /\ UNCHANGED <<batches, activeBatchId, syncMode, now, lastScan, bcastCount, queueVars>>

\* startHost (the Start Hosting button)
PanelStartHost(d) ==
    /\ syncMode[d] = "host"
    /\ ~svc[d].server
    /\ Len(updates[d]) < MaxUpdates
    /\ LanStartHost(d, TRUE)
    /\ SetSyncMode(d, "host")
    /\ UNCHANGED <<batches, activeBatchId, syncMode, now, lastScan, bcastCount, snapApplied, reapplied, scanner, panel,
                   queueVars>>

\* stopHost (the Stop Hosting button)
PanelStopHost(d) ==
    /\ syncMode[d] = "host"
    /\ svc[d].server
    /\ Len(updates[d]) < MaxUpdates
    /\ LanStopHost(d)
    /\ LinkLost(Clients)
    /\ SetSyncMode(d, "standalone")
    /\ UNCHANGED <<batches, activeBatchId, syncMode, now, lastScan, bcastCount, queueVars>>

\* connectToHost (the Connect button)
PanelConnectToHost(d) ==
    /\ syncMode[d] = "client"
    /\ ~IsConnected(d)
    /\ Len(updates[d]) < MaxUpdates
    /\ LanConnectToHost(d)
    /\ LinkLost({d})
    /\ SetSyncMode(d, "client")
    /\ UNCHANGED <<batches, activeBatchId, syncMode, now, lastScan, bcastCount, queueVars>>

\* disconnectClient (the Disconnect button)
PanelDisconnectClient(d) ==
    /\ syncMode[d] = "client"
    /\ IsConnected(d)
    /\ Len(updates[d]) < MaxUpdates
    /\ LanDisconnectFromHost(d)
    /\ LinkLost({d})
    /\ SetSyncMode(d, "standalone")
    /\ UNCHANGED <<batches, activeBatchId, syncMode, now, lastScan, bcastCount, queueVars>>

\* The operator opens the Batches view and the SyncPanel mounts: its effects
\* subscribe to the connection events and restore the status (getLanStatus,
\* onModeChange(status.mode), and requestSync when a Client is connected).
MountPanel(d) ==
    /\ ~panel[d].mounted
    /\ panel[d].handlers["host-connected"] < MaxMounts
    /\ Len(updates[d]) < MaxUpdates
    /\ panel' = [panel EXCEPT ![d] = Subscribe(@)]
    /\ SetSyncMode(d, svc[d].mode)
    /\ c2h' = IF svc[d].mode = "client" /\ IsConnected(d)
              THEN Emit(d, c2h, <<RequestSync(svc[d].clientSocket)>>)
              ELSE c2h
    /\ UNCHANGED <<batches, activeBatchId, syncMode, now, lastScan, bcastCount, snapApplied,
                   reapplied, scanner, svc, openSockets, connected, nextSocket, nextServer,
                   link, sendBuffer, h2c, queueVars>>

\* The operator leaves the Batches view and the SyncPanel unmounts.
UnmountPanel(d) ==
    /\ panel[d].mounted
    /\ panel' = [panel EXCEPT ![d] = Unsubscribe(@)]
    /\ UNCHANGED <<batches, updates, activeBatchId, syncMode, now, lastScan, bcastCount,
                   snapApplied, reapplied, scanner, lanVars, queueVars>>

\* ------------------------------------------------------------------ App.tsx: other record operations

\* onClearHistory: setBatches(batches.map(...records.map(r => ({...r, scanned: false}))))
ClearedBatches(bs, active) ==
    [i \in DOMAIN bs |->
        IF bs[i].id = active
        THEN [bs[i] EXCEPT !.records =
                 [k \in DOMAIN bs[i].records |-> [bs[i].records[k] EXCEPT !.scanned = FALSE]]]
        ELSE bs[i]]

ClearHistory(d) ==
    /\ Len(updates[d]) < MaxUpdates
    /\ NoneFromEventHandler(updates[d])
    /\ updates' = [updates EXCEPT ![d] = Append(@,
            [op |-> "setBatches", src |-> "onClearHistory",
             value |-> ClearedBatches(batches[d], activeBatchId[d])])]
    /\ UNCHANGED <<batches, activeBatchId, syncMode, now, lastScan, bcastCount, snapApplied, reapplied, scanner, panel,
                   lanVars, queueVars>>

\* handleDeleteBatch(id)
DeleteBatch(d, id) ==
    /\ Len(updates[d]) < MaxUpdates
    /\ NoneFromEventHandler(updates[d])
    /\ FindBatch(batches[d], id) > 0
    /\ updates' = [updates EXCEPT ![d] =
            (@ \o <<[op |-> "deleteBatch", id |-> id]>>)
            \o (IF activeBatchId[d] = id
                THEN <<[op |-> "setActiveBatchId", id |-> NoBatch]>> ELSE <<>>)]
    /\ UNCHANGED <<batches, activeBatchId, syncMode, now, lastScan, bcastCount, snapApplied, reapplied, scanner, panel,
                   lanVars, queueVars>>

\* ------------------------------------------------------------------ specifications

HostBatches == <<[id |-> "b1", records |-> <<Rec("r1"), Rec("r2")>>]>>
LocalBatches == <<[id |-> "b0", records |-> <<Rec("r3"), Rec("r4"), Rec("r5")>>]>>

AppInit ==
    /\ batches = [d \in Devices |-> IF d = Host THEN HostBatches ELSE LocalBatches]
    /\ updates = [d \in Devices |-> <<>>]
    /\ activeBatchId = [d \in Devices |-> IF d = Host THEN "b1" ELSE "b0"]
    /\ syncMode = [d \in Devices |-> "standalone"]
    /\ now = 1
    /\ lastScan = [dev |-> "none", mode |-> "standalone", connected |-> FALSE,
                   key |-> <<"none", "none">>,
                   result |-> "none", scanned |-> FALSE, before |-> FALSE,
                   delivery |-> "none"]
    /\ bcastCount = [k \in Keys |-> 0]
    /\ snapApplied = [d \in Devices |-> FALSE]
    /\ reapplied = [d \in Devices |-> {}]
    /\ scanner = [d \in Devices |-> ScannerInit]
    /\ panel = [d \in Devices |-> PanelInit]

LanInit ==
    /\ svc = [d \in Devices |-> SvcInit]
    /\ openSockets = [d \in Devices |-> {}]
    /\ connected = [d \in Devices |-> {}]
    /\ nextSocket = [d \in Devices |-> 1]
    /\ nextServer = [d \in Devices |-> 1]
    /\ link = [d \in Devices |-> [drops |-> 0, error |-> FALSE]]
    /\ sendBuffer = [d \in Devices |-> <<>>]
    /\ c2h = [d \in Devices |-> <<>>]
    /\ h2c = [d \in Devices |-> <<>>]

Init == QueueInit /\ AppInit /\ LanInit

\* the Client that joins the Host from Standalone, and the devices that act
Joiners == {"c1"}
Acting == {Host} \cup Joiners

\* Host and Clients: scans and the replication protocol, each device taking up
\* its role through the sync panel
Next ==
    \/ \E d \in Acting, code \in Codes : HandleScan(d, code)
    \/ \E d \in Acting : Render(d)
    \/ \E c \in Joiners : HostReceive(c)
    \/ \E c \in Joiners : ClientReceive(c)
    \/ \E c \in Joiners, sock \in 1..MaxSockets : SocketConnected(c, sock)
    \/ PanelHandleModeChange(Host, "host")
    \/ \E c \in Joiners : PanelHandleModeChange(c, "client")
    \/ PanelStartHost(Host)
    \/ \E c \in Joiners : PanelConnectToHost(c)

Spec == Init /\ [][Next]_vars

\* the same, with the Host's other record operations
OpsNext ==
    \/ Next
    \/ ClearHistory(Host)
    \/ \E id \in BatchIds : DeleteBatch(Host, id)

SpecOps == Init /\ [][OpsNext]_vars

\* a step in which React renders the queued updates of device d
RenderStep(d) ==
    /\ updates[d] # <<>>
    /\ \/ Len(updates'[d]) < Len(updates[d])
       \/ SubSeq(updates'[d], 1, Len(updates[d])) # updates[d]

\* the same, when React renders the updates of a handler before the next event
\* is handled on any device
Idle == \A d \in Devices : updates[d] = <<>>

PromptNext ==
    \/ \E d \in Acting : Render(d)
    \/ Idle /\ \E d \in Acting, code \in Codes : HandleScan(d, code)
    \/ Idle /\ \E c \in Joiners : HostReceive(c)
    \/ Idle /\ \E c \in Joiners : ClientReceive(c)
    \/ Idle /\ \E c \in Joiners, sock \in 1..MaxSockets : SocketConnected(c, sock)
    \/ Idle /\ PanelHandleModeChange(Host, "host")
    \/ Idle /\ \E c \in Joiners : PanelHandleModeChange(c, "client")
    \/ Idle /\ PanelStartHost(Host)
    \/ Idle /\ \E c \in Joiners : PanelConnectToHost(c)
    \/ Idle /\ ClearHistory(Host)
    \/ Idle /\ \E id \in BatchIds : DeleteBatch(Host, id)

SpecPrompt == Init /\ [][PromptNext]_vars

\* the same, with sessions that end: the roles are left again
SessionNext ==
    \/ Next
    \/ \E d \in Acting : PanelHandleModeChange(d, "standalone")
    \/ PanelStopHost(Host)
    \/ \E c \in Joiners : PanelDisconnectClient(c)

SpecSession == Init /\ [][SessionNext]_vars

\* the print queue of one Scanner
SpecQueue == Init /\ [][QueueNext]_vars

\* the print queue with its scheduling: React renders a queued state update,
\* and the 800 ms timer of a started processQueue fires.
SpecQueueFair ==
    /\ SpecQueue
    /\ WF_vars(RenderScanner)
    /\ \A k \in 1..MaxTasks : WF_vars(ResumeProcessQueue(k))

\* LanSyncService of each process, its operations called in any order
LanNext ==
    \/ \E d \in Acting, ok \in BOOLEAN :
          LanStartHost(d, ok) /\ UNCHANGED <<appVars, queueVars>>
    \/ \E d \in Acting : LanStopHost(d) /\ UNCHANGED <<appVars, queueVars>>
    \/ \E d \in Acting : LanConnectToHost(d) /\ UNCHANGED <<appVars, queueVars>>
    \/ \E d \in Acting : LanDisconnectFromHost(d) /\ UNCHANGED <<appVars, queueVars>>
    \/ \E d \in Acting, sock \in 1..MaxSockets : SocketConnected(d, sock)
    \/ \E d \in Acting, sock \in 1..MaxSockets :
          SocketConnectError(d, sock) /\ UNCHANGED <<appVars, queueVars>>
    \/ \E d \in Acting, sock \in 1..MaxSockets :
          SocketDrop(d, sock) /\ UNCHANGED <<appVars, queueVars>>

SpecLan == Init /\ [][LanNext]_vars

\* The Host is hosting its batch and every Client has joined it: connected,
\* in Client mode, the Host's snapshot applied.
JoinedInit ==
    /\ QueueInit
    /\ batches = [d \in Devices |-> HostBatches]
    /\ updates = [d \in Devices |-> <<>>]
    /\ activeBatchId = [d \in Devices |-> "b1"]
    /\ syncMode = [d \in Devices |-> IF d = Host THEN "host" ELSE "client"]
    /\ now = 1
    /\ lastScan = [dev |-> "none", mode |-> "standalone", connected |-> FALSE,
                   key |-> <<"none", "none">>,
                   result |-> "none", scanned |-> FALSE, before |-> FALSE,
                   delivery |-> "none"]
    /\ bcastCount = [k \in Keys |-> 0]
    /\ snapApplied = [d \in Devices |-> d \in Clients]
    /\ reapplied = [d \in Devices |-> {}]
    /\ scanner = [d \in Devices |-> ScannerInit]
    /\ panel = [d \in Devices |-> PanelInit]
    /\ svc = [d \in Devices |->
                IF d = Host THEN SvcStartHost(SvcInit, TRUE)
                ELSE SvcConnectToHost(SvcInit, 1)]
    /\ openSockets = [d \in Devices |-> IF d \in Clients THEN {1} ELSE {}]
    /\ connected = [d \in Devices |-> IF d \in Clients THEN {1} ELSE {}]
    /\ nextSocket = [d \in Devices |-> IF d \in Clients THEN 2 ELSE 1]
    /\ nextServer = [d \in Devices |-> IF d = Host THEN 2 ELSE 1]
    /\ link = [d \in Devices |-> [drops |-> 0, error |-> FALSE]]
    /\ sendBuffer = [d \in Devices |-> <<>>]
    /\ c2h = [d \in Devices |-> <<>>]
    /\ h2c = [d \in Devices |-> <<>>]

\* the Clients scan, the Host handles their scan-submits and broadcasts
RaceNext ==
    \/ \E c \in Clients, code \in RecordIds : HandleScan(c, code)
    \/ \E c \in Clients : HostReceive(c)
    \/ \E d \in Devices : Render(d)
    \/ \E c \in Clients : ClientReceive(c)

SpecRace == JoinedInit /\ [][RaceNext]_vars

\* a joined Client that is also sent snapshots without a batch list
PayloadNext ==
    \/ \E c \in Joiners, active \in {NoBatch, "b1"} : MalformedSnapshot(c, active)
    \/ \E c \in Joiners, code \in RecordIds : HandleScan(c, code)
    \/ \E c \in Joiners : HostReceive(c)
    \/ \E d \in Acting : Render(d)
    \/ \E c \in Joiners : ClientReceive(c)

SpecPayload == JoinedInit /\ [][PayloadNext]_vars

\* the Host and a joined Client scan, the Client prints and switches
\* Auto-print, while the protocol runs between them
PrintNext ==
    \/ \E d \in Acting, code \in Codes : HandleScan(d, code)
    \/ \E c \in Joiners : ToggleAutoPrint(c)
    \/ \E c \in Joiners : PrintNow(c)
    \/ \E c \in Joiners : HostReceive(c)
    \/ \E c \in Joiners : ClientReceive(c)
    \/ \E d \in Acting : Render(d)

SpecPrint == JoinedInit /\ [][PrintNext]_vars

\* a Client's service connects and disconnects while its operator opens and
\* leaves the Batches view
ViewNext ==
    \/ \E ok \in BOOLEAN : LanStartHost(Host, ok) /\ UNCHANGED <<appVars, queueVars>>
    \/ LanStopHost(Host) /\ UNCHANGED <<appVars, queueVars>>
    \/ \E c \in Joiners : LanConnectToHost(c) /\ UNCHANGED <<appVars, queueVars>>
    \/ \E c \in Joiners : LanDisconnectFromHost(c) /\ UNCHANGED <<appVars, queueVars>>
    \/ \E c \in Joiners, sock \in 1..MaxSockets : SocketConnected(c, sock)
    \/ \E c \in Joiners : MountPanel(c)
    \/ \E c \in Joiners : UnmountPanel(c)
    \/ \E c \in Joiners : Render(c)

SpecView == Init /\ [][ViewNext]_vars

\* the operators of the Host and of a Client choose modes in the sync panel,
\* start hosting and connect
ModeNext ==
    \/ \E d \in Acting : \E m \in ModesOf(d) : PanelHandleModeChange(d, m)
    \/ PanelStartHost(Host)
    \/ \E c \in Joiners : PanelConnectToHost(c)
    \/ \E c \in Joiners, sock \in 1..MaxSockets : SocketConnected(c, sock)
    \/ \E d \in Acting : Render(d)

SpecMode == Init /\ [][ModeNext]_vars

\* a joined Client's service is told to connect again while the Host scans
\* and broadcasts
RedialNext ==
    \/ \E c \in Joiners : LanConnectToHost(c) /\ UNCHANGED <<appVars, queueVars>>
    \/ \E c \in Joiners, sock \in 1..MaxSockets : SocketConnected(c, sock)
    \/ \E code \in RecordIds : HandleScan(Host, code)
    \/ \E c \in Joiners : HostReceive(c)
    \/ \E c \in Joiners : ClientReceive(c)
    \/ \E d \in Acting : Render(d)

SpecRedial == JoinedInit /\ [][RedialNext]_vars

\* the Host's service is started, with and without an exception, and stopped,
\* while the Clients' services connect to it and disconnect
StartNext ==
    \/ \E ok \in BOOLEAN : LanStartHost(Host, ok) /\ UNCHANGED <<appVars, queueVars>>
    \/ \E at \in ThrowPoints, ok \in BOOLEAN :
          LanStartHostThrows(Host, at, ok) /\ UNCHANGED <<appVars, queueVars>>
    \/ LanStopHost(Host) /\ UNCHANGED <<appVars, queueVars>>
    \/ \E c \in Clients : LanConnectToHost(c) /\ UNCHANGED <<appVars, queueVars>>
    \/ \E c \in Clients : LanDisconnectFromHost(c) /\ UNCHANGED <<appVars, queueVars>>
    \/ \E c \in Clients, sock \in 1..MaxSockets : SocketConnected(c, sock)
    \/ \E c \in Clients, sock \in 1..MaxSockets :
          SocketDrop(c, sock) /\ UNCHANGED <<appVars, queueVars>>

SpecStart == Init /\ [][StartNext]_vars

\* the Host and a joined Client scan while other operations of their
\* services are called, so that a service is left holding its server or its
\* socket in a mode that is not the one of its role
RolesNext ==
    \/ \E c \in Joiners : LanStartHost(c, TRUE) /\ UNCHANGED <<appVars, queueVars>>
    \/ \E c \in Joiners : LanStopHost(c) /\ UNCHANGED <<appVars, queueVars>>
    \/ LanConnectToHost(Host) /\ UNCHANGED <<appVars, queueVars>>
    \/ \E c \in Joiners, sock \in 1..MaxSockets : SocketConnected(c, sock)
    \/ \E c \in Joiners, sock \in 1..MaxSockets :
          SocketDrop(c, sock) /\ UNCHANGED <<appVars, queueVars>>
    \/ \E d \in Acting : HandleScan(d, "r1")
    \/ \E c \in Joiners : HostReceive(c)
    \/ \E c \in Joiners : ClientReceive(c)
    \/ \E d \in Acting : Render(d)

SpecRoles == JoinedInit /\ [][RolesNext]_vars

\* two joined Clients open and leave the Batches view, which asks the Host
\* for a snapshot each time
SnapshotNext ==
    \/ \E c \in Clients : MountPanel(c)
    \/ \E c \in Clients : UnmountPanel(c)
    \/ \E c \in Clients : HostReceive(c)
    \/ \E c \in Clients : ClientReceive(c)
    \/ \E c \in Clients : Render(c)

SpecSnapshot == JoinedInit /\ [][SnapshotNext]_vars

\* ------------------------------------------------------------------ claims

\* C1: at most one task of the print queue has status 'processing', in every
\* reachable state, whatever the interleaving of addToPrintQueue with the
\* queue-processor effect and its suspended invocations.
C1_AtMostOneProcessing == Cardinality(ProcessingIdx(printQueue)) <= 1

\* C1 witness: the effect re-fired (a second task was committed) while the
\* invocation of the processing task is still suspended.
C1_Witness ==
    /\ Len(printQueue) >= 2
    /\ printQueue[1].status = "processing"
    /\ printQueue[2].status = "pending"
    /\ \E k \in DOMAIN invocations : invocations[k].internalId = printQueue[1].internalId

\* C2: a task is promoted to 'processing' only when every task enqueued before
\* it has left the queue after its print was attempted: promotion is oldest
\* first.
C2_OldestFirst ==
    \A j \in DOMAIN printQueue :
        printQueue[j].status = "processing" =>
            /\ \A i \in DOMAIN printQueue :
                   printQueue[i].internalId >= printQueue[j].internalId
            /\ \A id \in 1..(printQueue[j].internalId - 1) : id \in Range(printLog)

\* C2 witness: the second task enqueued is 'processing' after the first one
\* was printed and removed.
C2_Witness ==
    /\ printQueue # <<>>
    /\ printQueue[1].internalId = 2
    /\ printQueue[1].status = "processing"
    /\ printLog = <<1>>

\* C3 (as claimed): at most one external print operation is in flight.
C3_OnePrintInFlight == Cardinality(printsInFlight) <= 1

\* ---- replication

\* every queued update that touches batches comes from handleScan
OnlyScans(us) ==
    \A i \in DOMAIN us :
        \/ us[i].op \in {"setSyncMode", "setActiveBatchId"}
        \/ us[i].op = "setBatches" /\ us[i].src = "handleScan"

\* C4 (as claimed): scans of an already scanned record on the Host or in
\* Standalone leave its scannedAt as the first scan stamped it.
C4_RescanKeepsScannedAt ==
    [][\A d \in Devices, key \in Keys :
          (syncMode[d] # "client" /\ IsScanned(batches[d], key) /\ OnlyScans(updates[d]))
              => StampOf(batches'[d], key) = StampOf(batches[d], key)]_vars

\* C5 (as claimed): the Host emits at most one scan-broadcast per record id.
C5_OneBroadcastPerId == \A key \in Keys : bcastCount[key] <= 1

\* nothing of the protocol is in flight between the Host and Client c
Quiescent(c) ==
    /\ c2h[c] = <<>> /\ h2c[c] = <<>> /\ sendBuffer[c] = <<>>
    /\ updates[c] = <<>> /\ updates[Host] = <<>>

\* C6 (as claimed): a connected Client that applied a snapshot holds, once
\* nothing is in flight, the scanned flag and scannedAt of the Host for every
\* record of a batch they share.
C6_ClientAgreesWithHost ==
    \A c \in Clients :
        (snapApplied[c] /\ IsConnected(c) /\ Quiescent(c)) =>
            \A key \in Keys :
                (HasRecord(batches[Host], key) /\ HasRecord(batches[c], key)) =>
                    /\ RecordOf(batches[c], key).scanned = RecordOf(batches[Host], key).scanned
                    /\ RecordOf(batches[c], key).scannedAt = RecordOf(batches[Host], key).scannedAt

TouchesBatches(u) == u.op \in {"setBatches", "remoteScan", "scanUpdate", "deleteBatch"}

\* the queue ends with a snapshot: no later update of batches follows it
EndsWithSnapshot(us) ==
    \E i \in DOMAIN us :
        /\ IsSnapshot(us[i])
        /\ \A j \in (i + 1)..Len(us) : ~TouchesBatches(us[j])

SnapshotOf(us) ==
    us[CHOOSE i \in DOMAIN us :
          IsSnapshot(us[i]) /\ \A j \in (i + 1)..Len(us) : ~TouchesBatches(us[j])].value

\* C7: when a Client renders a sync-snapshot, its batch list is exactly the
\* list of the snapshot: nothing of its previous batches or records survives.
C7_SnapshotSupersedes ==
    [][\A c \in Clients :
          (RenderStep(c) /\ EndsWithSnapshot(updates[c]))
              => batches'[c] = SnapshotOf(updates[c])]_vars

\* C7 witness: the Client held a local batch of three records; after the
\* snapshot it holds the Host's batch of two records and nothing else.
C7_Witness ==
    \E c \in Clients :
        /\ snapApplied[c]
        /\ updates[c] = <<>>
        /\ Len(batches[c]) = 1
        /\ batches[c][1].id = "b1"
        /\ Len(batches[c][1].records) = 2
        /\ FindBatch(batches[c], "b0") = 0

\* C8 (as claimed): in no state of a LanSyncService do a server and a client
\* socket coexist, whatever the order of startHost, stopHost, connectToHost and
\* disconnectFromHost.
C8_RolesExclusive ==
    \A d \in Devices : ~(svc[d].server /\ svc[d].clientSocket # NoSocket)

\* C9: a scan made in Client mode changes nothing of the Client's own batches,
\* committed or queued; in Client mode a record of the Client becomes scanned
\* only in a render that applies a scan-broadcast or a snapshot.
C9_ClientScanLeavesStore ==
    [][\A c \in Clients :
          /\ (lastScan' # lastScan /\ lastScan'.dev = c /\ lastScan'.mode = "client")
                => (batches'[c] = batches[c] /\ updates'[c] = updates[c])
          /\ (syncMode[c] = "client"
              /\ \E key \in Keys : ~IsScanned(batches[c], key) /\ IsScanned(batches'[c], key))
                => \E i \in DOMAIN updates[c] :
                       updates[c][i].op = "scanUpdate" \/ IsSnapshot(updates[c][i])]_vars

\* C9 witness: the Client scanned a record of the shared batch in Client mode,
\* the scan was sent, and the record is still unscanned in the Client's store.
C9_Witness ==
    \E c \in Clients :
        /\ lastScan.dev = c /\ lastScan.mode = "client" /\ lastScan.result = "hit"
        /\ lastScan.delivery = "sent"
        /\ \E i \in DOMAIN c2h[c] : c2h[c][i].type = "client-scan"
        /\ HasRecord(batches[c], <<"b1", "r1">>)
        /\ ~IsScanned(batches[c], <<"b1", "r1">>)
        /\ ~IsScanned(batches[c], <<"b1", "r2">>)

\* C10 (as claimed): a scan in Client mode without a live connection is not
\* reported as a hit, and its scan-submit is neither buffered nor dropped.
C10_DisconnectedScanFails ==
    (lastScan.dev \in Clients /\ lastScan.mode = "client" /\ ~lastScan.connected)
        => (lastScan.result # "hit" /\ lastScan.delivery \notin {"buffered", "dropped"})

\* C11 (as claimed): a LanSyncService has the Host role only with a server that
\* is bound; after a startHost that could not bind the role is Standalone.
C11_HostOnlyWhenBound ==
    \A d \in Devices : svc[d].mode = "host" => svc[d].listening

\* C12 (as claimed): after a connection attempt that failed (the socket saw
\* 'connect_error' and is not connected) the role is Standalone.
C12_StandaloneAfterFailedConnect ==
    \A d \in Devices : link[d].error => svc[d].mode = "standalone"

\* C13: each time a socket of a Client gets connected, the first time and at
\* every reconnection, the last message the Client has emitted to the Host is
\* the request-sync of that socket.
C13_RequestSyncOnEveryConnect ==
    [][\A c \in Clients, sock \in 1..MaxSockets :
          (sock \notin connected[c] /\ sock \in connected'[c])
              => /\ c2h'[c] # <<>>
                 /\ c2h'[c][Len(c2h'[c])] = RequestSync(sock)
                 /\ Len(c2h'[c]) = Len(c2h[c]) + Len(sendBuffer[c]) + 1]_vars

\* C13 witness: the connection of a Client was lost and made again, and the
\* request-sync of the reconnection is in flight.
C13_Witness ==
    \E c \in Clients :
        /\ link[c].drops >= 1
        /\ svc[c].clientSocket \in connected[c]
        /\ c2h[c] = <<RequestSync(svc[c].clientSocket)>>

\* the scan-submits a Host may be handed
RemoteScans ==
    [op : {"remoteScan"}, batchId : BatchIds, trackingNumber : AllRecordIds,
     scannedAt : 0..(MaxTime + 1)]

\* the scan-submit u names no record of bs, or a record that is scanned already
Rejected(bs, u) ==
    \/ ~HasRecord(bs, <<u.batchId, u.trackingNumber>>)
    \/ IsScanned(bs, <<u.batchId, u.trackingNumber>>)

\* C14: a scan-submit whose batch or tracking number the Host does not find, or
\* whose record is scanned already, leaves the Host's batches as they are
\* (scannedAt included) and emits no scan-broadcast: for every store the Host
\* reaches and every scan-submit, and in every render of the Host that applies
\* only such scan-submits.
C14_RejectedSubmitChangesNothing ==
    /\ [](\A u \in RemoteScans :
            Rejected(batches[Host], u) =>
                /\ ApplyRemoteScan(batches[Host], u, now) = batches[Host]
                /\ RemoteScanBroadcasts(batches[Host], u, now) = <<>>)
    /\ [][(/\ RenderStep(Host)
           /\ \A i \in DOMAIN updates[Host] :
                 /\ updates[Host][i].op = "remoteScan"
                 /\ Rejected(batches[Host], updates[Host][i]))
              => (batches'[Host] = batches[Host] /\ bcastCount' = bcastCount)]_vars

\* C14 witness: the Host scanned r1 itself at time 1, a Client then submitted
\* a scan of r1 at time 2, the Host has handled it, and r1 is as it was.
C14_Witness ==
    /\ lastScan.dev \in Clients /\ lastScan.mode = "client"
    /\ lastScan.key = <<"b1", "r1">> /\ lastScan.delivery = "sent"
    /\ now = 3
    /\ \A c \in Clients : c2h[c] = <<>> /\ sendBuffer[c] = <<>>
    /\ updates[Host] = <<>>
    /\ IsScanned(batches[Host], <<"b1", "r1">>)
    /\ StampOf(batches[Host], <<"b1", "r1">>) = 1
    /\ ~IsScanned(batches[Host], <<"b1", "r2">>)
    /\ bcastCount[<<"b1", "r1">>] <= 1

\* the positions of the scan-submits for key in the queue us
SubmitsFor(us, key) ==
    {i \in DOMAIN us : us[i].op = "remoteScan"
                       /\ <<us[i].batchId, us[i].trackingNumber>> = key}

FirstOf(S) == CHOOSE i \in S : \A j \in S : i <= j

\* C15: when the Clients submit scans of the same unscanned id, the Host marks
\* the record once, with the scannedAt of the scan-submit it handles first,
\* emits one scan-broadcast for it, which carries the stored scannedAt, and a
\* later scan-submit changes neither.
C15_FirstSubmitWins ==
    /\ [](\A key \in Keys : bcastCount[key] <= 1)
    /\ [](\A c \in Clients : \A i \in DOMAIN h2c[c] :
            h2c[c][i].type = "scan-update" =>
                h2c[c][i].scannedAt =
                    StampOf(batches[Host], <<h2c[c][i].batchId, h2c[c][i].trackingNumber>>))
    /\ [][\A key \in Keys :
            /\ (/\ RenderStep(Host)
                /\ HasRecord(batches[Host], key) /\ ~IsScanned(batches[Host], key)
                /\ SubmitsFor(updates[Host], key) # {})
                 => /\ IsScanned(batches'[Host], key)
                    /\ StampOf(batches'[Host], key) =
                           updates[Host][FirstOf(SubmitsFor(updates[Host], key))].scannedAt
                    /\ bcastCount'[key] = bcastCount[key] + 1
            /\ IsScanned(batches[Host], key)
                 => /\ IsScanned(batches'[Host], key)
                    /\ StampOf(batches'[Host], key) = StampOf(batches[Host], key)]_vars

\* C15 witness: both Clients scanned r1, c1 at time 1 and c2 at time 2; the
\* Host handled the scan-submit of c2 first, holds r1 scanned at 2 and has
\* emitted one scan-broadcast for it.
C15_Witness ==
    /\ now = 3
    /\ \A c \in Clients : c2h[c] = <<>> /\ sendBuffer[c] = <<>>
    /\ updates[Host] = <<>>
    /\ lastScan.dev = "c2" /\ lastScan.key = <<"b1", "r1">> /\ lastScan.delivery = "sent"
    /\ IsScanned(batches[Host], <<"b1", "r1">>)
    /\ StampOf(batches[Host], <<"b1", "r1">>) = 2
    /\ ~IsScanned(batches[Host], <<"b1", "r2">>)
    /\ bcastCount[<<"b1", "r1">>] = 1

\* C16 (as claimed): the snapshot the Host sends in answer to a request-sync
\* holds as scanned every record for which the Host has emitted a
\* scan-broadcast before.
C16_SnapshotHoldsBroadcastScans ==
    [][\A c \in Clients :
          (/\ Len(h2c'[c]) = Len(h2c[c]) + 1
           /\ h2c'[c][Len(h2c'[c])].type = "sync-data-response")
              => \A key \in Keys :
                     bcastCount[key] > 0
                         => IsScanned(h2c'[c][Len(h2c'[c])].batches, key)]_vars

\* C17 (as claimed): a record for which a scan-broadcast has been emitted is
\* scanned in the Host's store, whenever the Host has rendered all its updates.
C17_BroadcastScanStaysApplied ==
    \A key \in Keys :
        (bcastCount[key] > 0 /\ updates[Host] = <<>>)
            => IsScanned(batches[Host], key)

\* the records the queued update u marks as scanned in the store bs
MarkedBy(bs, u) ==
    IF u.op = "remoteScan"
    THEN {key \in Keys : /\ key = <<u.batchId, u.trackingNumber>>
                         /\ HasRecord(bs, key)}
    ELSE IF u.op = "setBatches" /\ u.src = "handleScan"
    THEN {key \in Keys : IsScanned(u.value, key) /\ ~IsScanned(bs, key)}
    ELSE {}

\* C18 (as claimed): when the Host renders a Host-local scan and a Client's
\* scan-submit for two unscanned records, both records are scanned afterwards.
C18_NeitherScanIsLost ==
    [][RenderStep(Host) =>
          \A i \in DOMAIN updates[Host] :
              \A key \in MarkedBy(batches[Host], updates[Host][i]) :
                  IsScanned(batches'[Host], key)]_vars

\* the scan-broadcasts a Client may be handed
ScanUpdates ==
    [op : {"scanUpdate"}, batchId : BatchIds, trackingNumber : AllRecordIds,
     scannedAt : 1..(MaxTime + 1)]

\* C19: for every store a Client reaches and every scan-broadcast u: applying u
\* twice gives what applying it once gives; the record u names, scanned or
\* not, is scanned with u's scannedAt afterwards; every other record and the
\* shape of the batch list are as before.
C19_BroadcastIsIdempotentById ==
    \A c \in Clients : \A u \in ScanUpdates :
        LET bs == batches[c]
            once == ApplyScanUpdate(bs, u)
            key == <<u.batchId, u.trackingNumber>>
        IN /\ ApplyScanUpdate(once, u) = once
           /\ HasRecord(bs, key) =>
                 /\ IsScanned(once, key)
                 /\ StampOf(once, key) = u.scannedAt
           /\ \A other \in Keys \ {key} :
                 /\ HasRecord(once, other) = HasRecord(bs, other)
                 /\ HasRecord(bs, other) => RecordOf(once, other) = RecordOf(bs, other)
           /\ HasRecord(once, key) = HasRecord(bs, key)
           /\ Len(once) = Len(bs)
           /\ \A i \in DOMAIN bs :
                 once[i].id = bs[i].id /\ Len(once[i].records) = Len(bs[i].records)

\* C19 witness: a Client applied a scan-broadcast for r1 when r1 was scanned
\* already in its store, and holds r1 with the scannedAt of the later one.
C19_Witness ==
    \E c \in Clients :
        /\ <<"b1", "r1">> \in reapplied[c]
        /\ updates[c] = <<>>
        /\ IsScanned(batches[c], <<"b1", "r1">>)
        /\ StampOf(batches[c], <<"b1", "r1">>) = 2
        /\ ~IsScanned(batches[c], <<"b1", "r2">>)

\* task id was handed to addToPrintQueue
Enqueued(id) == id < nextTaskId

\* task id is in the rendered queue with the given status
HasStatus(id, status) ==
    \E i \in DOMAIN printQueue :
        printQueue[i].internalId = id /\ printQueue[i].status = status

\* processQueue was started for task id (or has already finished it)
Promoted(id) ==
    \/ \E k \in DOMAIN invocations : invocations[k].internalId = id
    \/ id \in Range(printLog)

\* task id went through executePrint and is gone from the queue
Removed(id) ==
    /\ id \in Range(printLog)
    /\ \A i \in DOMAIN printQueue : printQueue[i].internalId # id
    /\ \A i \in DOMAIN pqUpdates : pqUpdates[i].id # id

QueueEmpty == printQueue = <<>> /\ pqUpdates = <<>> /\ invocations = <<>>

\* C20: when React renders queued updates and the timers of processQueue
\* fire, every enqueued task is eventually promoted to 'processing' and
\* eventually removed from the queue, and a queue that is not empty
\* eventually becomes empty.
C20_EveryTaskIsPrintedAndRemoved ==
    /\ \A id \in 1..MaxTasks : Enqueued(id) ~> Promoted(id)
    /\ \A id \in 1..MaxTasks : HasStatus(id, "pending") ~> HasStatus(id, "processing")
    /\ \A id \in 1..MaxTasks : Enqueued(id) ~> Removed(id)
    /\ ~QueueEmpty ~> QueueEmpty

\* C20 witness: three tasks were enqueued, each went through processQueue in
\* turn, and the queue is empty again.
C20_Witness ==
    /\ QueueEmpty
    /\ nextTaskId > 3
    /\ printLog = <<1, 2, 3>>

\* how often id occurs in the sequence of ids s
Occurrences(s, id) == Cardinality({i \in DOMAIN s : s[i] = id})

\* processQueue invocations started for task id and still in their delay
Started(id) == Cardinality({k \in DOMAIN invocations : invocations[k].internalId = id})

\* C21: for every task, printHTML is called at most once and processQueue is
\* started at most once, counting the invocation still in its delay; a task
\* whose print failed has been through executePrint, is not promoted again,
\* and is out of the rendered queue once its removal is rendered.
C21_PrintInvokedAtMostOnce ==
    \A id \in 1..MaxTasks :
        /\ Occurrences(printCalls, id) <= 1
        /\ Started(id) + Occurrences(printLog, id) <= 1
        /\ id \in failedPrints =>
              /\ Occurrences(printLog, id) = 1
              /\ Started(id) = 0
              /\ ~HasStatus(id, "pending")
              /\ pqUpdates = <<>> => \A i \in DOMAIN printQueue : printQueue[i].internalId # id

\* C21 witness: executePrint failed for task 1 before it reached printHTML,
\* task 1 is gone, and the queue went on to task 2.
C21_Witness ==
    /\ 1 \in failedPrints
    /\ printCalls = <<2>>
    /\ printLog = <<1, 2>>
    /\ QueueEmpty

\* the removal of task id is queued
RemoveQueued(us, id) == \E i \in DOMAIN us : us[i].op = "remove" /\ us[i].id = id

\* the position of task id in the queue q, 0 when it is not there
PositionOf(q, id) ==
    LET hits == {i \in DOMAIN q : q[i].internalId = id} IN
    IF hits = {} THEN 0 ELSE CHOOSE i \in hits : \A j \in hits : i <= j

\* C22: when the removal of a task whose print failed is rendered, that task
\* leaves the queue, every other task is still there with its record and
\* status, in the same relative order, and when a pending task remains
\* processQueue is started for the first of them.
C22_FailureRemovesOnlyThatTask ==
    [][\A id \in 1..MaxTasks :
          (/\ id \in failedPrints
           /\ RemoveQueued(pqUpdates, id)
           /\ ~RemoveQueued(pqUpdates', id))
              => /\ PositionOf(printQueue', id) = 0
                 /\ \A i \in DOMAIN printQueue :
                       printQueue[i].internalId # id
                           => /\ PositionOf(printQueue', printQueue[i].internalId) > 0
                              /\ printQueue'[PositionOf(printQueue', printQueue[i].internalId)]
                                     = printQueue[i]
                 /\ \A i, j \in DOMAIN printQueue :
                       (/\ i < j
                        /\ printQueue[i].internalId # id
                        /\ printQueue[j].internalId # id)
                           => PositionOf(printQueue', printQueue[i].internalId)
                                  < PositionOf(printQueue', printQueue[j].internalId)
                 /\ PendingIdx(printQueue') # {}
                       => /\ Len(invocations') = Len(invocations) + 1
                          /\ invocations'[Len(invocations')] =
                                 printQueue'[CHOOSE i \in PendingIdx(printQueue') :
                                                \A j \in PendingIdx(printQueue') : i <= j]]_vars

\* C22 witness: the print of task 1 failed with tasks 2 and 3 waiting; task 1
\* is gone, 2 and 3 are in the queue in that order, and processQueue was
\* started for task 2.
C22_Witness ==
    /\ 1 \in failedPrints
    /\ printLog = <<1>>
    /\ Len(printQueue) = 2
    /\ printQueue[1].internalId = 2 /\ printQueue[2].internalId = 3
    /\ printQueue[2].status = "pending"
    /\ Len(invocations) = 1 /\ invocations[1].internalId = 2

\* the ids of the tasks enqueued so far, wherever they are now
KnownTaskIds ==
    {printQueue[i].internalId : i \in DOMAIN printQueue}
        \cup {pqUpdates[i].id : i \in DOMAIN pqUpdates}
        \cup {invocations[i].internalId : i \in DOMAIN invocations}
        \cup Range(printLog)

\* the addition of task id is queued
AddQueued(us, id) == \E i \in DOMAIN us : us[i].op = "add" /\ us[i].id = id

\* C23: a call of addToPrintQueue queues the addition of exactly one task,
\* 'pending', of the given record, with an id no task had before, and touches
\* neither the rendered queue nor any print in progress; when the addition is
\* rendered the task stands behind every task that was in the queue; the
\* updater of the addition leaves every task of the queue as it is; no two
\* tasks of the queue share an id.
C23_EnqueueAppendsOneFreshTask ==
    /\ [](\A i, j \in DOMAIN printQueue :
              printQueue[i].internalId = printQueue[j].internalId => i = j)
    /\ [](\A r \in RecordIds :
              LET task == [internalId |-> nextTaskId, record |-> r, status |-> "pending"]
                  q == ApplyQueueUpdate(printQueue, [op |-> "add", id |-> nextTaskId, task |-> task])
              IN /\ Len(q) = Len(printQueue) + 1
                 /\ q[Len(q)] = task
                 /\ \A i \in DOMAIN printQueue : q[i] = printQueue[i])
    /\ [][nextTaskId' # nextTaskId =>
              /\ Len(pqUpdates') = Len(pqUpdates) + 1
              /\ SubSeq(pqUpdates', 1, Len(pqUpdates)) = pqUpdates
              /\ LET u == pqUpdates'[Len(pqUpdates')] IN
                    /\ u.op = "add"
                    /\ u.task.status = "pending"
                    /\ u.task.internalId = u.id
                    /\ u.task.record \in RecordIds
                    /\ u.id \notin KnownTaskIds
              /\ UNCHANGED <<printQueue, invocations, printsInFlight, printLog, printCalls>>]_vars
    /\ [][\A id \in 1..MaxTasks :
              (AddQueued(pqUpdates, id) /\ ~AddQueued(pqUpdates', id))
                  => /\ PositionOf(printQueue', id) > 0
                     /\ printQueue'[PositionOf(printQueue', id)].status = "pending"
                     /\ \A i \in DOMAIN printQueue :
                           PositionOf(printQueue', printQueue[i].internalId) > 0
                               => /\ PositionOf(printQueue', printQueue[i].internalId)
                                         < PositionOf(printQueue', id)
                                  /\ printQueue'[PositionOf(printQueue', printQueue[i].internalId)]
                                         .record = printQueue[i].record]_vars

\* C23 witness: the same record was enqueued twice while an earlier task was
\* being processed; the queue holds two tasks for it behind the earlier one.
C23_Witness ==
    /\ Len(printQueue) = 3
    /\ printQueue[1].status = "processing"
    /\ printQueue[2].record = printQueue[3].record
    /\ printQueue[2].internalId # printQueue[3].internalId
    /\ printQueue[2].status = "pending" /\ printQueue[3].status = "pending"

\* the updates onSyncDataReceived queued for a payload without a batch list
FromMalformedSnapshot(u) ==
    \/ IsSnapshot(u) /\ u.value = Undefined
    \/ u.op = "setActiveBatchId"

\* C24 (as claimed): a Client that renders what it queued for snapshots
\* without a batch list, and nothing else, has the batches and the active
\* batch id it had before, and the connection of its service is as it was.
C24_MalformedSnapshotDiscarded ==
    [][\A c \in Clients :
          (/\ updates[c] # <<>>
           /\ \A i \in DOMAIN updates[c] : FromMalformedSnapshot(updates[c][i])
           /\ \E i \in DOMAIN updates[c] : IsSnapshot(updates[c][i])
           /\ updates'[c] = <<>>)
              => /\ batches'[c] = batches[c]
                 /\ activeBatchId'[c] = activeBatchId[c]
                 /\ svc'[c] = svc[c] /\ connected'[c] = connected[c]]_vars

C26_DisconnectIdempotent ==
    \A d \in Devices :
        LET once == SvcDisconnectFromHost(svc[d]) IN
        /\ once.clientSocket = NoSocket
        /\ once.mode # "client"
        /\ SvcDisconnectFromHost(once) = once
        /\ svc[d].clientSocket = NoSocket => once = svc[d]

\* C26 witness: a device connected to the Host and disconnected; its service
\* is back in 'standalone' with no socket, open or connected.
C26_Witness ==
    \E c \in Clients :
        /\ nextSocket[c] > 1
        /\ svc[c].clientSocket = NoSocket
        /\ svc[c].mode = "standalone"
        /\ openSockets[c] = {} /\ connected[c] = {}

\* C27 (as claimed): the record handleScan returns for a hit carries the
\* re-scan mark (scanned, which the Scanner shows as the 'Re-scan' badge)
\* exactly when the record was scanned already before this scan.
C27_ResultTellsRescan ==
    lastScan.result = "hit" => (lastScan.scanned = lastScan.before)

\* C28 (as claimed): every call of addToPrintQueue on a device was made for a
\* scan on that device or by its Print Now button, and a step that handles a
\* scan-submit, a scan-broadcast or a snapshot, or renders what they queued,
\* makes no such call.
C28_OnlyOwnScanOrPrintNowEnqueues ==
    /\ [](\A d \in Devices : \A i \in DOMAIN scanner[d].enqueued :
              scanner[d].enqueued[i].by \in {"scan", "printNow"})
    /\ [][(c2h' # c2h \/ h2c' # h2c \/ \E d \in Devices : RenderStep(d))
              => \A d \in Devices :
                     scanner'[d].enqueued # scanner[d].enqueued
                         => lastScan' # lastScan /\ lastScan'.dev = d]_vars

\* the connection of Client c ends in this step without c asking for it: the
\* Host's server goes away, or the link is lost
ConnectionEnds(c) ==
    /\ svc[c].mode = "client"
    /\ svc[c].clientSocket \in connected[c]
    /\ \/ svc[Host].server /\ ~svc'[Host].server
       \/ link'[c].drops > link[c].drops

\* C29: when the Host stops or the link is lost, a service in 'client' mode
\* stays in 'client' mode with its socket, and getStatus reports isConnected
\* false; a service that is and stays in 'client' mode goes from isConnected
\* false to true only in a step in which its socket connects to a listening
\* Host.
C29_ClientReportsLostConnection ==
    /\ [][\A c \in Clients :
             ConnectionEnds(c)
                 => /\ svc'[c] = svc[c]
                    /\ ~IsConnected(c)']_vars
    /\ [][\A c \in Clients :
             (/\ svc[c].mode = "client" /\ svc'[c].mode = "client"
              /\ ~IsConnected(c) /\ IsConnected(c)')
                 => /\ svc'[c].clientSocket \in connected'[c] \ connected[c]
                    /\ svc[Host].listening]_vars

\* C29 witness: a Client that was connected lost its link; it is in 'client'
\* mode with its socket, the socket is not connected, and getStatus reports
\* isConnected false.
C29_Witness ==
    \E c \in Clients :
        /\ link[c].drops > 0
        /\ svc[c].mode = "client" /\ svc[c].clientSocket # NoSocket
        /\ svc[c].clientSocket \notin connected[c]
        /\ ~IsConnected(c)

\* C30 (as claimed): on every device each sync event has at most one handler
\* registered with ipcRenderer.
C30_OneHandlerPerEvent ==
    \A d \in Devices : \A e \in SyncEvents : panel[d].handlers[e] <= 1

\* device d has an active batch and none of its records has the id code
MatchesNoRecord(d, code) ==
    \E i \in DOMAIN batches[d] :
        /\ batches[d][i].id = activeBatchId[d]
        /\ \A k \in DOMAIN batches[d][i].records : batches[d][i].records[k].id # code

\* C31: a handleScan of a code that is the id of no record of the active
\* batch returns a miss, leaves the batches and the queued updates of every
\* device as they are, emits nothing to the Host or to the Clients, and
\* enqueues no print task; the Scanner's lastRecord is null afterwards.
C31_MissChangesNothing ==
    [][\A d \in Devices :
          (/\ lastScan' # lastScan
           /\ lastScan'.dev = d
           /\ MatchesNoRecord(d, lastScan'.key[2]))
              => /\ lastScan'.result = "miss"
                 /\ UNCHANGED <<batches, updates, activeBatchId, now>>
                 /\ UNCHANGED <<c2h, h2c, sendBuffer, bcastCount>>
                 /\ UNCHANGED queueVars
                 /\ \A x \in Devices : scanner'[x].enqueued = scanner[x].enqueued
                 /\ scanner'[d].lastRecord = NoRecord]_vars

\* C31 witness: with Auto-print on and a print already enqueued for its
\* last hit, the Client scanned a code that matches no record: the result is
\* a miss, lastRecord is null and nothing more was enqueued.
C31_Witness ==
    \E c \in Clients :
        /\ lastScan.dev = c /\ lastScan.result = "miss" /\ lastScan.key[2] = "r3"
        /\ scanner[c].autoPrint
        /\ scanner[c].lastRecord = NoRecord
        /\ Len(scanner[c].enqueued) = 1
        /\ scanner[c].enqueued[1].by = "scan"

\* the record of the task whose addition with this id is queued in us
QueuedRecord(us, id) ==
    (CHOOSE u \in Range(us) : u.op = "add" /\ u.id = id).task.record

\* C32: in every step, a task that is 'pending' in the queue is still in the
\* queue afterwards, a task that is 'processing' is 'processing' as long as it
\* is in the queue, a task that is out of the queue after having been in it
\* never comes back, and a task in the queue has the record it was enqueued
\* with.
C32_TaskLifecycle ==
    [][\A id \in 1..MaxTasks :
          LET was == PositionOf(printQueue, id)
              is == PositionOf(printQueue', id)
          IN /\ HasStatus(id, "pending") => is > 0
             /\ (HasStatus(id, "processing") /\ is > 0)
                   => printQueue'[is].status = "processing"
             /\ (was > 0 /\ is > 0) => printQueue'[is].record = printQueue[was].record
             /\ (was = 0 /\ is > 0)
                   => /\ AddQueued(pqUpdates, id)
                      /\ printQueue'[is].record = QueuedRecord(pqUpdates, id)
                      /\ printQueue'[is].status = "pending"
             /\ (was > 0 /\ is = 0)
                   => /\ printQueue[was].status = "processing"
                      /\ id \in Range(printLog)]_vars

\* C32 witness: task 1 went from 'pending' through 'processing' out of the
\* queue, task 2 is 'processing' and task 3 is 'pending' behind it.
C32_Witness ==
    /\ printLog = <<1>>
    /\ PositionOf(printQueue, 1) = 0
    /\ Len(printQueue) = 2
    /\ printQueue[1].internalId = 2 /\ printQueue[1].status = "processing"
    /\ printQueue[2].internalId = 3 /\ printQueue[2].status = "pending"

\* the Host takes a request-sync of Client c off the wire in this step
AnswersRequestOf(c) ==
    /\ c2h[c] # <<>>
    /\ Head(c2h[c]).type = "request-sync"
    /\ c2h'[c] = Tail(c2h[c])

Snapshots(msgs) ==
    LET IsSnap(m) == m.type = "sync-data-response" IN SelectSeq(msgs, IsSnap)

\* C33: in the step in which the Host answers the request-sync of a Client,
\* the snapshot is appended to what is on the way to that Client, and what is
\* on the way to every other Client does not change; and no step puts a
\* snapshot on the way to a Client except the answer to its own request.
C33_SnapshotOnlyToRequester ==
    [][\A c \in Clients :
          /\ AnswersRequestOf(c)
                => /\ h2c'[c] = Append(h2c[c],
                                  [type |-> "sync-data-response",
                                   batches |-> batches[Host],
                                   activeBatchId |-> activeBatchId[Host]])
                   /\ \A x \in Clients \ {c} : h2c'[x] = h2c[x]
          /\ Len(Snapshots(h2c'[c])) > Len(Snapshots(h2c[c])) => AnswersRequestOf(c)]_vars

\* C33 witness: both Clients are connected, the request of one of them has
\* been answered, and the snapshot is on the way to it while the other
\* Client, whose own request is still unanswered, has nothing on the way.
C33_Witness ==
    /\ LinkedClients = Clients
    /\ c2h["c1"] = <<>>
    /\ Len(Snapshots(h2c["c1"])) = 1
    /\ c2h["c2"] # <<>>
    /\ h2c["c2"] = <<>>

\* this step reports to the App a mode m other than the one device d is in
AdoptsMode(d, m) ==
    /\ m # syncMode[d]
    /\ updates'[d] = Append(updates[d], [op |-> "setSyncMode", mode |-> m])

\* C34: in the step in which a device that is in Host mode reports another
\* mode, its server has been stopped, and in the step in which a device that
\* is in Client mode reports another mode, its socket has been disconnected:
\* the service is out of the old role when the new mode is adopted. And
\* handleModeChange with the mode the device is in is no step at all.
C34_OldRoleLeftBeforeNewMode ==
    /\ [][\A d \in Acting, m \in {"standalone", "host", "client"} :
             AdoptsMode(d, m) =>
                /\ syncMode[d] = "host"
                      => /\ ~svc'[d].server /\ ~svc'[d].io
                         /\ svc'[d].mode # "host"
                /\ syncMode[d] = "client"
                      => /\ svc'[d].clientSocket = NoSocket
                         /\ svc'[d].mode # "client"
                         /\ openSockets'[d] = {}]_vars
    /\ [](\A d \in Acting : ~ENABLED PanelHandleModeChange(d, syncMode[d]))

\* C34 witness: the Host had started its server and its operator chose
\* Standalone: the server is gone, the new mode is reported and not yet
\* rendered.
C34_Witness ==
    /\ syncMode[Host] = "host"
    /\ nextServer[Host] > 1
    /\ ~svc[Host].server /\ svc[Host].mode = "standalone"
    /\ updates[Host] # <<>>
    /\ updates[Host][Len(updates[Host])] = [op |-> "setSyncMode", mode |-> "standalone"]

\* C35: a device has at most one client socket open, the one its service
\* holds, and only an open socket is connected; and in the step in which the
\* service takes a new socket the previous one is closed and what was on the
\* way to the device over it is dropped.
C35_OneClientSocket ==
    /\ [](\A d \in Devices :
             /\ Cardinality(openSockets[d]) <= 1
             /\ openSockets[d] \subseteq {svc[d].clientSocket}
             /\ connected[d] \subseteq openSockets[d])
    /\ [][\A d \in Devices :
             (svc'[d].clientSocket # svc[d].clientSocket /\ svc[d].clientSocket # NoSocket)
                => /\ svc[d].clientSocket \notin openSockets'[d]
                   /\ svc[d].clientSocket \notin connected'[d]
                   /\ h2c'[d] = <<>>]_vars

\* C35 witness: a Client that was connected called connectToHost again: its
\* second socket is the only one open and is connected, and a scan-broadcast
\* the Host emitted meanwhile has not reached the Client and is not on the
\* way to it.
C35_Witness ==
    \E c \in Joiners, k \in Keys :
        /\ bcastCount[k] > 0
        /\ openSockets[c] = {2} /\ svc[c].clientSocket = 2 /\ connected[c] = {2}
        /\ h2c[c] = <<>> /\ updates[c] = <<>>
        /\ HasRecord(batches[c], k) /\ ~IsScanned(batches[c], k)

\* C36: wherever a server is running, startHost returns the failure 'Server
\* already running' and yields the state it was called in; and a step of
\* startHost from a state with a running server changes nothing of the
\* services, their sockets and connections, and what is on the way.
C36_StartHostWhileRunning ==
    /\ [](\A d \in Devices, ok \in BOOLEAN :
             svc[d].server
                => /\ SvcStartHost(svc[d], ok) = svc[d]
                   /\ StartHostResult(svc[d], "none") =
                         [success |-> FALSE, message |-> "Server already running"])
    /\ [][\A d \in Devices :
             (svc[d].server /\ \E ok \in BOOLEAN : LanStartHost(d, ok))
                => UNCHANGED lanVars]_vars

\* C36 witness: the Host's server is running and listening and a Client is
\* connected to it: the state in which a second startHost is refused.
C36_Witness ==
    /\ svc[Host].server /\ svc[Host].io /\ svc[Host].listening /\ svc[Host].mode = "host"
    /\ \E c \in Clients : svc[c].clientSocket \in connected[c]
    /\ \E ok \in BOOLEAN : ENABLED (LanStartHost(Host, ok) /\ UNCHANGED <<appVars, queueVars>>)

\* a step of startHost on device d, no server running, in which a statement
\* throws: the steps a startHost that returns success cannot take
StartHostFails(d) ==
    /\ ~svc[d].server
    /\ \E at \in ThrowPoints, ok \in BOOLEAN : LanStartHostThrows(d, at, ok)
    /\ ~\E ok \in BOOLEAN : LanStartHost(d, ok)

\* C40: after a step of startHost in which a statement throws, the service has
\* no server and no io, and the next startHost is not refused with 'Server
\* already running'.
C40_FailedStartLeavesNoServer ==
    [][\A d \in Devices :
          StartHostFails(d)
             => /\ ~svc'[d].server /\ ~svc'[d].io
                /\ StartHostResult(svc'[d], "none").message # "Server already running"]_vars

\* this step emits a message on a socket of the Host's server
HostEmits == \E c \in Clients : Len(h2c'[c]) > Len(h2c[c])

\* this step emits a message on the client socket of c (socket.io buffers it
\* while the socket is not connected)
ClientEmits(c) ==
    Len(c2h'[c]) + Len(sendBuffer'[c]) > Len(c2h[c]) + Len(sendBuffer[c])

\* this step is the 'connect' event of the client socket of c
ConnectEvent(c) == svc[c].clientSocket \in connected'[c] \ connected[c]

C38_HostScannedIsMonotonic ==
    [][\A k \in Keys :
          (/\ syncMode[Host] = "host" /\ syncMode'[Host] = "host"
           /\ IsScanned(batches[Host], k)
           /\ HasRecord(batches'[Host], k))
             => IsScanned(batches'[Host], k)]_vars

\* the addToPrintQueue calls of a Scanner that its auto-print effect made
AutoEnqueued(sc) ==
    Cardinality({i \in DOMAIN sc.enqueued : sc.enqueued[i].by # "printNow"})

\* this step is a successful scan made on device d
SuccessfulScan(d) == now' # now /\ lastScan'.dev = d /\ lastScan'.result = "hit"

\* C39: a step in which device d scans successfully with auto-print on adds
\* one automatic addToPrintQueue call on d, and every other step (a scan with
\* auto-print off, a miss, switching auto-print) adds none.
C39_OneAutoTaskPerScan ==
    [][\A d \in Devices :
          AutoEnqueued(scanner'[d]) =
              AutoEnqueued(scanner[d])
                  + (IF SuccessfulScan(d) /\ scanner[d].autoPrint THEN 1 ELSE 0)]_vars

====
